---- MODULE Spec2Model ----
(***************************************************************************)
(* A model of cloak: the layered pattern matcher (matcher.rs), the type    *)
(* filter (filter.rs, filesystem.rs), the hide primitive (filesystem.rs),  *)
(* the batch search (search.rs) and the watch loop with its event          *)
(* normalisation (watcher.rs).                                             *)
(***************************************************************************)
EXTENDS Integers, Sequences, FiniteSets, Bags, TLC

(***************************************************************************)
(* Paths.  A path is a sequence of components (absolute, below "/"); a     *)
(* component is a non-empty sequence of bytes.  "xFF" is a byte that is    *)
(* not valid UTF-8; "uFFFD" is the replacement character that              *)
(* to_string_lossy puts in its place.                                      *)
(***************************************************************************)
MaxDepth == 2

\* Option<T>: None is the empty tuple, Some(x) the one-element tuple.
None == <<>>

Some(x) == <<x>>

IsSome(o) == o # None

Unwrap(o) == o[1]

InvalidByte == "xFF"

ReplacementChar == "uFFFD"

Names == { <<"a">>, <<"b">>, <<".", "a">>, <<".", "b">>, <<InvalidByte>> }

RECURSIVE PathsOfDepth(_)
PathsOfDepth(d) ==
    IF d = 0 THEN { <<>> }
    ELSE { Append(p, n) : p \in PathsOfDepth(d - 1), n \in Names }

Paths == UNION { PathsOfDepth(d) : d \in 1..MaxDepth }

RECURSIVE JoinComponents(_)
JoinComponents(path) ==
    IF path = <<>> THEN <<>>
    ELSE <<"/">> \o Head(path) \o JoinComponents(Tail(path))

\* The bytes of a path as the operating system holds them: "/a/b", and "/" for
\* the root.
as_os_str(path) == IF path = <<>> THEN <<"/">> ELSE JoinComponents(path)

\* Path::to_str: the text of the path, or None when it is not valid UTF-8.
to_str(bytes) ==
    IF \E i \in 1..Len(bytes) : bytes[i] = InvalidByte THEN None ELSE Some(bytes)

\* Path::to_string_lossy: every invalid byte becomes U+FFFD.
to_string_lossy(bytes) ==
    [i \in 1..Len(bytes) |->
        IF bytes[i] = InvalidByte THEN ReplacementChar ELSE bytes[i]]

(***************************************************************************)
(* Patterns.  A glob is a sequence of tokens: a literal byte, "STAR" (the  *)
(* star wildcard) or "QM" (the question mark); globset matches it against  *)
(* the whole path, byte by byte, and both wildcards match the separator    *)
(* and invalid bytes too.  A regex is a sequence of tokens: a literal      *)
(* character or "ANY" (the dot); RegexSet searches for it anywhere in the  *)
(* text.                                                                   *)
(***************************************************************************)
RECURSIVE GlobMatch(_, _)
GlobMatch(pat, s) ==
    IF pat = <<>> THEN s = <<>>
    ELSE IF Head(pat) = "STAR"
         THEN GlobMatch(Tail(pat), s) \/ (s # <<>> /\ GlobMatch(pat, Tail(s)))
         ELSE /\ s # <<>>
              /\ (Head(pat) = "QM" \/ Head(pat) = Head(s))
              /\ GlobMatch(Tail(pat), Tail(s))

\* GlobSet::is_match: some glob of the set matches the path's bytes.
GlobSet_is_match(set, bytes) == \E g \in set : GlobMatch(g, bytes)

RegexMatchAt(re, text, i) ==
    /\ i + Len(re) - 1 <= Len(text)
    /\ \A k \in 1..Len(re) : re[k] = "ANY" \/ re[k] = text[i + k - 1]

\* RegexSet::is_match: some regex of the set is found somewhere in the text.
RegexSet_is_match(set, text) ==
    \E re \in set : \E i \in 1..(Len(text) + 1) : RegexMatchAt(re, text, i)

GlobPool == { <<"STAR", "b">>, <<"/", "QM">> }

RegexPool == { <<"a">>, <<"/", "ANY", "/">> }

\* An optional collection of patterns: absent, or a (possibly empty) set.
OptionOf(pool) == {None} \cup { Some(c) : c \in SUBSET pool }

Matchers ==
    [globs : OptionOf(GlobPool), globs_exclude : OptionOf(GlobPool),
     regexes : OptionOf(RegexPool), regexes_exclude : OptionOf(RegexPool)]

MatchResult(result, matcher_type, lossy, path_str) ==
    [result |-> result, matcher_type |-> matcher_type,
     lossy |-> IF lossy THEN Some(path_str) ELSE None]

\* Matcher::matches with the include rules tried before the exclude rules.
matches_include_first(m, path) ==
    LET bytes == as_os_str(path)
        lossy == to_str(bytes) = None
        path_str == IF lossy THEN to_string_lossy(bytes) ELSE Unwrap(to_str(bytes))
    IN  IF m.globs = None /\ m.globs_exclude = None
           /\ m.regexes = None /\ m.regexes_exclude = None
        THEN MatchResult(TRUE, None, lossy, path_str)
        ELSE IF m.globs # None /\ GlobSet_is_match(Unwrap(m.globs), bytes)
        THEN MatchResult(TRUE, Some("Glob"), lossy, path_str)
        ELSE IF m.regexes # None /\ RegexSet_is_match(Unwrap(m.regexes), path_str)
        THEN MatchResult(TRUE, Some("Regex"), lossy, path_str)
        ELSE IF m.globs_exclude # None /\ GlobSet_is_match(Unwrap(m.globs_exclude), bytes)
        THEN MatchResult(FALSE, Some("Glob"), lossy, path_str)
        ELSE IF m.regexes_exclude # None
                /\ RegexSet_is_match(Unwrap(m.regexes_exclude), path_str)
        THEN MatchResult(FALSE, Some("Regex"), lossy, path_str)
        ELSE MatchResult(FALSE, None, lossy, path_str)

\* Matcher::matches falling through to "matched" when no rule decided.
matches_accept_fallthrough(m, path) ==
    LET bytes == as_os_str(path)
        lossy == to_str(bytes) = None
        path_str == IF lossy THEN to_string_lossy(bytes) ELSE Unwrap(to_str(bytes))
    IN  IF m.globs = None /\ m.globs_exclude = None
           /\ m.regexes = None /\ m.regexes_exclude = None
        THEN MatchResult(TRUE, None, lossy, path_str)
        ELSE IF m.globs_exclude # None /\ GlobSet_is_match(Unwrap(m.globs_exclude), bytes)
        THEN MatchResult(FALSE, Some("Glob"), lossy, path_str)
        ELSE IF m.regexes_exclude # None
                /\ RegexSet_is_match(Unwrap(m.regexes_exclude), path_str)
        THEN MatchResult(FALSE, Some("Regex"), lossy, path_str)
        ELSE IF m.globs # None /\ GlobSet_is_match(Unwrap(m.globs), bytes)
        THEN MatchResult(TRUE, Some("Glob"), lossy, path_str)
        ELSE IF m.regexes # None /\ RegexSet_is_match(Unwrap(m.regexes), path_str)
        THEN MatchResult(TRUE, Some("Regex"), lossy, path_str)
        ELSE MatchResult(TRUE, None, lossy, path_str)

\* Matcher::matches without the no-patterns short-circuit.
matches_no_short_circuit(m, path) ==
    LET bytes == as_os_str(path)
        lossy == to_str(bytes) = None
        path_str == IF lossy THEN to_string_lossy(bytes) ELSE Unwrap(to_str(bytes))
    IN  IF m.globs_exclude # None /\ GlobSet_is_match(Unwrap(m.globs_exclude), bytes)
        THEN MatchResult(FALSE, Some("Glob"), lossy, path_str)
        ELSE IF m.regexes_exclude # None
                /\ RegexSet_is_match(Unwrap(m.regexes_exclude), path_str)
        THEN MatchResult(FALSE, Some("Regex"), lossy, path_str)
        ELSE IF m.globs # None /\ GlobSet_is_match(Unwrap(m.globs), bytes)
        THEN MatchResult(TRUE, Some("Glob"), lossy, path_str)
        ELSE IF m.regexes # None /\ RegexSet_is_match(Unwrap(m.regexes), path_str)
        THEN MatchResult(TRUE, Some("Regex"), lossy, path_str)
        ELSE MatchResult(FALSE, None, lossy, path_str)

\* Matcher::matches refusing every path that is not valid UTF-8.
matches_utf8_only(m, path) ==
    LET bytes == as_os_str(path)
        lossy == to_str(bytes) = None
        path_str == IF lossy THEN to_string_lossy(bytes) ELSE Unwrap(to_str(bytes))
    IN  IF lossy THEN MatchResult(FALSE, None, lossy, path_str)
        ELSE IF m.globs = None /\ m.globs_exclude = None
           /\ m.regexes = None /\ m.regexes_exclude = None
        THEN MatchResult(TRUE, None, lossy, path_str)
        ELSE IF m.globs_exclude # None /\ GlobSet_is_match(Unwrap(m.globs_exclude), bytes)
        THEN MatchResult(FALSE, Some("Glob"), lossy, path_str)
        ELSE IF m.regexes_exclude # None
                /\ RegexSet_is_match(Unwrap(m.regexes_exclude), path_str)
        THEN MatchResult(FALSE, Some("Regex"), lossy, path_str)
        ELSE IF m.globs # None /\ GlobSet_is_match(Unwrap(m.globs), bytes)
        THEN MatchResult(TRUE, Some("Glob"), lossy, path_str)
        ELSE IF m.regexes # None /\ RegexSet_is_match(Unwrap(m.regexes), path_str)
        THEN MatchResult(TRUE, Some("Regex"), lossy, path_str)
        ELSE MatchResult(FALSE, None, lossy, path_str)

\* Matcher::matches.  Globs see the path's bytes, regexes its (lossy) text.
matches(m, path) ==
    LET bytes == as_os_str(path)
        lossy == to_str(bytes) = None
        path_str == IF lossy THEN to_string_lossy(bytes) ELSE Unwrap(to_str(bytes))
    IN  IF m.globs = None /\ m.globs_exclude = None
           /\ m.regexes = None /\ m.regexes_exclude = None
        THEN MatchResult(TRUE, None, lossy, path_str)
        ELSE IF m.globs_exclude # None /\ GlobSet_is_match(Unwrap(m.globs_exclude), bytes)
        THEN MatchResult(FALSE, Some("Glob"), lossy, path_str)
        ELSE IF m.regexes_exclude # None
                /\ RegexSet_is_match(Unwrap(m.regexes_exclude), path_str)
        THEN MatchResult(FALSE, Some("Regex"), lossy, path_str)
        ELSE IF m.globs # None /\ GlobSet_is_match(Unwrap(m.globs), bytes)
        THEN MatchResult(TRUE, Some("Glob"), lossy, path_str)
        ELSE IF m.regexes # None /\ RegexSet_is_match(Unwrap(m.regexes), path_str)
        THEN MatchResult(TRUE, Some("Regex"), lossy, path_str)
        ELSE MatchResult(FALSE, None, lossy, path_str)

(***************************************************************************)
(* The file system.  fs maps each existing path to its entry; every        *)
(* ancestor of an existing path exists and is a directory.  A symbolic     *)
(* link is "link_file" or "link_dir" (its target, outside the tree, is a   *)
(* regular file or a directory) or "link_broken" (its target does not      *)
(* exist); "fifo" is an entry that is neither file, directory nor link.    *)
(* hidden is the Windows attribute.                                        *)
(* The empty path is the root directory, which always exists and has no    *)
(* file name.                                                              *)
(***************************************************************************)
Kinds == { "file", "dir", "fifo", "link_file", "link_dir", "link_broken" }

Entry(kind, hidden) == [kind |-> kind, hidden |-> hidden]

file_name(path) == IF path = <<>> THEN None ELSE Some(path[Len(path)])

parent(path) == IF path = <<>> THEN None ELSE Some(SubSeq(path, 1, Len(path) - 1))

IsPrefix(p, q) == Len(p) <= Len(q) /\ SubSeq(q, 1, Len(p)) = p

HasChildren(fs_, dir) == \E q \in DOMAIN fs_ : q # dir /\ IsPrefix(dir, q)

WellFormed(fs_) ==
    \A q \in DOMAIN fs_ :
        Len(q) > 1 =>
            /\ Unwrap(parent(q)) \in DOMAIN fs_
            /\ fs_[Unwrap(parent(q))].kind = "dir"

\* fs::metadata: follows symbolic links; fails on a missing path and on a link
\* whose target is missing.  The result describes the link's target, so
\* is_symlink is false of everything it returns.
metadata(fs_, path) ==
    IF path = <<>>
    THEN Some([is_file |-> FALSE, is_dir |-> TRUE, is_symlink |-> FALSE,
               hidden |-> FALSE])
    ELSE IF path \notin DOMAIN fs_ \/ fs_[path].kind = "link_broken" THEN None
    ELSE Some([is_file |-> fs_[path].kind \in {"file", "link_file"},
               is_dir |-> fs_[path].kind \in {"dir", "link_dir"},
               is_symlink |-> FALSE,
               hidden |-> fs_[path].hidden])

\* rename that succeeds although its source is gone.
rename_ok_missing_source(fs_, src, dst) ==
    dst \in DOMAIN fs_ /\ src \in DOMAIN fs_ =>
        IF fs_[src].kind = "dir"
        THEN fs_[dst].kind = "dir" /\ ~HasChildren(fs_, dst)
        ELSE fs_[dst].kind # "dir"

\* fs::rename (rename(2)): the entry at src, with everything below it, moves to
\* dst; an existing dst is replaced, unless it is a non-empty directory or the
\* two are not both directories or both non-directories.
rename_ok(fs_, src, dst) ==
    /\ src \in DOMAIN fs_
    /\ dst \in DOMAIN fs_ =>
          IF fs_[src].kind = "dir"
          THEN fs_[dst].kind = "dir" /\ ~HasChildren(fs_, dst)
          ELSE fs_[dst].kind # "dir"

rename(fs_, src, dst) ==
    IF ~rename_ok(fs_, src, dst) THEN [ok |-> FALSE, fs |-> fs_]
    ELSE LET moved == { q \in DOMAIN fs_ : IsPrefix(src, q) }
             to(q) == dst \o SubSeq(q, Len(src) + 1, Len(q))
             kept == (DOMAIN fs_ \ moved) \ {dst}
         IN  [ok |-> TRUE,
              fs |-> [q \in kept \cup { to(m) : m \in moved } |->
                        IF q \in kept THEN fs_[q]
                        ELSE fs_[CHOOSE m \in moved : to(m) = q]]]

\* hide (Unix) without the check for a name that is hidden already.
hide_unix_always_renames(fs_, path) ==
    IF file_name(path) = None THEN [ok |-> FALSE, fs |-> fs_]
    ELSE LET name == Unwrap(file_name(path))
         IN  IF to_str(name) = None THEN [ok |-> FALSE, fs |-> fs_]
             ELSE IF parent(path) = None THEN [ok |-> FALSE, fs |-> fs_]
             ELSE rename(fs_, path, Unwrap(parent(path)) \o << <<".">> \o name >>)

\* hide (Unix): a name that starts with a dot is hidden already; any other
\* name gets a dot prepended by a rename within the parent directory.
hide_unix(fs_, path) ==
    IF file_name(path) = None THEN [ok |-> FALSE, fs |-> fs_]
    ELSE LET name == Unwrap(file_name(path))
         IN  IF to_str(name) = None THEN [ok |-> FALSE, fs |-> fs_]
             ELSE IF Head(name) = "."
             THEN [ok |-> TRUE, fs |-> fs_]
             ELSE IF parent(path) = None THEN [ok |-> FALSE, fs |-> fs_]
             ELSE rename(fs_, path, Unwrap(parent(path)) \o << <<".">> \o name >>)

\* hide (Windows): reads the attributes, and sets the hidden attribute unless
\* it is set already.  (The root's own attributes are not part of fs.)
hide_windows(fs_, path) ==
    IF metadata(fs_, path) = None THEN [ok |-> FALSE, fs |-> fs_]
    ELSE IF Unwrap(metadata(fs_, path)).hidden \/ path \notin DOMAIN fs_
    THEN [ok |-> TRUE, fs |-> fs_]
    ELSE [ok |-> TRUE,
          fs |-> [fs_ EXCEPT ![path] = Entry(fs_[path].kind, TRUE)]]

Platforms == { "unix", "windows" }

\* hide: the variant the build selected with cfg(target_family).
hide(pf, fs_, path) ==
    IF pf = "windows" THEN hide_windows(fs_, path) ELSE hide_unix(fs_, path)

(***************************************************************************)
(* Results and output lines.                                               *)
(***************************************************************************)
Ok(v) == <<"Ok", v>>

Err(e) == <<"Err", e>>

IsOk(r) == r[1] = "Ok"

Val(r) == r[2]

\* A line printed with println! ("stdout") or eprintln! ("stderr").
Line(stream, text, path) == [stream |-> stream, text |-> text, path |-> path]

\* One step of a dispatch, for the record of what was done in which order.
Step(what, path, ret) == [step |-> what, path |-> path, ret |-> ret]

(***************************************************************************)
(* The type filter.                                                        *)
(***************************************************************************)
ObjectTypes == { "File", "Folder", "Symlink", "Unknown" }

\* object_type: file, then directory, then symbolic link, then Unknown.
object_type(fs_, path) ==
    IF metadata(fs_, path) = None THEN Err("Failed to get metadata")
    ELSE LET md == Unwrap(metadata(fs_, path))
         IN  IF md.is_file THEN Ok("File")
             ELSE IF md.is_dir THEN Ok("Folder")
             ELSE IF md.is_symlink THEN Ok("Symlink")
             ELSE Ok("Unknown")

\* matches_type: the object's type is one of the given types.
matches_type(fs_, path, types_) ==
    IF IsOk(object_type(fs_, path))
    THEN Ok(Val(object_type(fs_, path)) \in types_)
    ELSE object_type(fs_, path)

\* filter::file_type_matches taking a metadata error for a match.
file_type_matches_error_accepts(fs_, path, types_, verbose_) ==
    IF types_ = None THEN [ret |-> TRUE, out |-> <<>>]
    ELSE LET r == matches_type(fs_, path, Unwrap(types_))
         IN  IF IsOk(r)
             THEN [ret |-> Val(r),
                   out |-> IF verbose_ /\ ~Val(r)
                           THEN <<Line("stdout", "Skipping: not a file or folder", path)>>
                           ELSE <<>>]
             ELSE [ret |-> TRUE, out |-> <<Line("stderr", Val(r), path)>>]

\* filter::file_type_matches: no type set accepts every path; a metadata error
\* is printed and means "does not match".
file_type_matches(fs_, path, types_, verbose_) ==
    IF types_ = None THEN [ret |-> TRUE, out |-> <<>>]
    ELSE LET r == matches_type(fs_, path, Unwrap(types_))
         IN  IF IsOk(r)
             THEN [ret |-> Val(r),
                   out |-> IF verbose_ /\ ~Val(r)
                           THEN <<Line("stdout", "Skipping: not a file or folder", path)>>
                           ELSE <<>>]
             ELSE [ret |-> FALSE, out |-> <<Line("stderr", Val(r), path)>>]

\* filter::path_matches_pattern: the matcher's verdict, with the diagnostics
\* verbose asks for.
path_matches_pattern(m, path, verbose_) ==
    LET res == matches(m, path)
    IN  [ret |-> res.result,
         out |-> IF ~verbose_ THEN <<>>
                 ELSE (IF res.lossy # None
                       THEN <<Line("stderr", "not valid UTF-8", path)>>
                       ELSE <<>>)
                      \o (IF res.result THEN <<>>
                          ELSE IF res.matcher_type # None
                          THEN <<Line("stdout",
                                      IF Unwrap(res.matcher_type) = "Glob"
                                      THEN "Skipping: excluded by a glob pattern"
                                      ELSE "Skipping: excluded by a regex pattern",
                                      path)>>
                          ELSE <<Line("stdout", "Skipping: did not match any patterns",
                                      path)>>)]

\* What processing one entry or one event did: the outcome, the file system it
\* left, the lines it printed and the steps it took.
Dispatched(outcome, fs_, out, steps) ==
    [outcome |-> outcome, fs |-> fs_, out |-> out, steps |-> steps]

(***************************************************************************)
(* Batch dispatch: what search does with one item of the walk.             *)
(***************************************************************************)
\* search's per-entry pipeline without the type filter.
search_entry_no_type_filter(pf, fs_, item, m, types_, test_, verbose_) ==
    IF ~IsOk(item)
    THEN Dispatched("Skipped", fs_, <<Line("stderr", "Failed to get path.", Val(item))>>,
                    <<>>)
    ELSE LET path == Val(item)
             pm == path_matches_pattern(m, path, verbose_)
         IN  IF ~pm.ret
             THEN Dispatched("Skipped", fs_, pm.out, <<Step("match", path, FALSE)>>)
             ELSE IF test_
             THEN Dispatched("WouldHide", fs_,
                             pm.out \o <<Line("stdout", "Would hide", path)>>,
                             <<Step("match", path, TRUE),
                               Step("would_hide", path, TRUE)>>)
             ELSE LET h == hide(pf, fs_, path)
                  IN  Dispatched(IF h.ok THEN "Hidden" ELSE "Failed", h.fs,
                                 pm.out
                                 \o (IF verbose_
                                     THEN <<Line("stdout", "Hiding", path)>> ELSE <<>>)
                                 \o (IF h.ok THEN <<>>
                                     ELSE <<Line("stderr", "hide failed", path)>>),
                                 <<Step("match", path, TRUE),
                                   Step("hide", path, h.ok)>>)

\* search's per-entry pipeline hiding in test mode too.
search_entry_ignores_test(pf, fs_, item, m, types_, test_, verbose_) ==
    IF ~IsOk(item)
    THEN Dispatched("Skipped", fs_, <<Line("stderr", "Failed to get path.", Val(item))>>,
                    <<>>)
    ELSE LET path == Val(item)
             tm == file_type_matches(fs_, path, types_, verbose_)
             pm == path_matches_pattern(m, path, verbose_)
         IN  IF ~tm.ret
             THEN Dispatched("Skipped", fs_, tm.out, <<Step("type", path, FALSE)>>)
             ELSE IF ~pm.ret
             THEN Dispatched("Skipped", fs_, tm.out \o pm.out,
                             <<Step("type", path, TRUE), Step("match", path, FALSE)>>)
             ELSE LET h == hide(pf, fs_, path)
                  IN  Dispatched(IF h.ok THEN "Hidden" ELSE "Failed", h.fs,
                                 tm.out \o pm.out
                                 \o (IF verbose_
                                     THEN <<Line("stdout", "Hiding", path)>> ELSE <<>>)
                                 \o (IF h.ok THEN <<>>
                                     ELSE <<Line("stderr", "hide failed", path)>>),
                                 <<Step("type", path, TRUE), Step("match", path, TRUE),
                                   Step("hide", path, h.ok)>>)

\* search, for one item the walk yields: an error is printed and dropped; an
\* entry passes the type filter, then the pattern filter, and is then reported
\* (test) or hidden.
search_entry(pf, fs_, item, m, types_, test_, verbose_) ==
    IF ~IsOk(item)
    THEN Dispatched("Skipped", fs_, <<Line("stderr", "Failed to get path.", Val(item))>>,
                    <<>>)
    ELSE LET path == Val(item)
             tm == file_type_matches(fs_, path, types_, verbose_)
             pm == path_matches_pattern(m, path, verbose_)
         IN  IF ~tm.ret
             THEN Dispatched("Skipped", fs_, tm.out, <<Step("type", path, FALSE)>>)
             ELSE IF ~pm.ret
             THEN Dispatched("Skipped", fs_, tm.out \o pm.out,
                             <<Step("type", path, TRUE), Step("match", path, FALSE)>>)
             ELSE IF test_
             THEN Dispatched("WouldHide", fs_,
                             tm.out \o pm.out \o <<Line("stdout", "Would hide", path)>>,
                             <<Step("type", path, TRUE), Step("match", path, TRUE),
                               Step("would_hide", path, TRUE)>>)
             ELSE LET h == hide(pf, fs_, path)
                  IN  Dispatched(IF h.ok THEN "Hidden" ELSE "Failed", h.fs,
                                 tm.out \o pm.out
                                 \o (IF verbose_
                                     THEN <<Line("stdout", "Hiding", path)>> ELSE <<>>)
                                 \o (IF h.ok THEN <<>>
                                     ELSE <<Line("stderr", "hide failed", path)>>),
                                 <<Step("type", path, TRUE), Step("match", path, TRUE),
                                   Step("hide", path, h.ok)>>)

(***************************************************************************)
(* Watch dispatch: event normalisation and what handle_event does with one *)
(* event.  An event is a kind and a list of paths; a kind is the path of   *)
(* the notify::EventKind variant, <<"Modify", "Name", "To">> for           *)
(* Modify(Name(RenameMode::To)).                                           *)
(***************************************************************************)
Event(kind, paths) == [kind |-> kind, paths |-> paths]

RenameModes == { "Any", "To", "From", "Both", "Other" }

EventKinds ==
    { <<"Any">>, <<"Access">>, <<"Create">>, <<"Remove">>, <<"Other">>,
      <<"Modify", "Any">>, <<"Modify", "Data">>, <<"Modify", "Metadata">>,
      <<"Modify", "Other">> }
    \cup { <<"Modify", "Name", mode>> : mode \in RenameModes }

IsCreate(kind) == kind[1] = "Create"

IsModifyName(kind) == Len(kind) = 3 /\ kind[1] = "Modify" /\ kind[2] = "Name"

\* get_path taking the first path of a name-change event.
get_path_first_path(event) ==
    IF IsCreate(event.kind)
    THEN Some(IF Len(event.paths) >= 1 THEN Ok(event.paths[1])
              ELSE Err("Failed to get path from event"))
    ELSE IF IsModifyName(event.kind) /\ event.kind # <<"Modify", "Name", "From">>
    THEN Some(IF Len(event.paths) >= 1 THEN Ok(event.paths[1])
              ELSE Err("Failed to get path from event"))
    ELSE None

\* get_path without the exception for rename-from events.
get_path_handles_from(event) ==
    IF IsCreate(event.kind)
    THEN Some(IF Len(event.paths) >= 1 THEN Ok(event.paths[1])
              ELSE Err("Failed to get path from event"))
    ELSE IF IsModifyName(event.kind)
    THEN Some(IF Len(event.paths) >= 2 THEN Ok(event.paths[2])
              ELSE IF Len(event.paths) >= 1 THEN Ok(event.paths[1])
              ELSE Err("Failed to get path from event"))
    ELSE None

\* get_path dropping an event without a path silently.
get_path_silent_without_path(event) ==
    IF Len(event.paths) = 0 THEN None
    ELSE IF IsCreate(event.kind) THEN Some(Ok(event.paths[1]))
    ELSE IF IsModifyName(event.kind) /\ event.kind # <<"Modify", "Name", "From">>
    THEN Some(IF Len(event.paths) >= 2 THEN Ok(event.paths[2]) ELSE Ok(event.paths[1]))
    ELSE None

\* get_path: the first path of a Create event; the second path, or else the
\* first, of a name-change event that is not a rename-from; nothing for any
\* other event.
get_path(event) ==
    IF IsCreate(event.kind)
    THEN Some(IF Len(event.paths) >= 1 THEN Ok(event.paths[1])
              ELSE Err("Failed to get path from event"))
    ELSE IF IsModifyName(event.kind) /\ event.kind # <<"Modify", "Name", "From">>
    THEN Some(IF Len(event.paths) >= 2 THEN Ok(event.paths[2])
              ELSE IF Len(event.paths) >= 1 THEN Ok(event.paths[1])
              ELSE Err("Failed to get path from event"))
    ELSE None

\* handle_event without the type filter.
handle_event_no_type_filter(pf, fs_, event, m, types_, test_, verbose_) ==
    IF get_path(event) = None THEN Dispatched("Skipped", fs_, <<>>, <<>>)
    ELSE IF ~IsOk(Unwrap(get_path(event)))
    THEN Dispatched("Skipped", fs_,
                    <<Line("stderr", Val(Unwrap(get_path(event))), <<>>)>>, <<>>)
    ELSE LET path == Val(Unwrap(get_path(event)))
             pm == path_matches_pattern(m, path, verbose_)
         IN  IF ~pm.ret
             THEN Dispatched("Skipped", fs_, pm.out, <<Step("match", path, FALSE)>>)
             ELSE IF test_
             THEN Dispatched("WouldHide", fs_,
                             pm.out \o <<Line("stdout", "Would hide", path)>>,
                             <<Step("match", path, TRUE),
                               Step("would_hide", path, TRUE)>>)
             ELSE LET h == hide(pf, fs_, path)
                  IN  Dispatched(IF h.ok THEN "Hidden" ELSE "Failed", h.fs,
                                 pm.out
                                 \o (IF verbose_
                                     THEN <<Line("stdout", "Hiding", path)>> ELSE <<>>)
                                 \o (IF h.ok THEN <<>>
                                     ELSE <<Line("stderr", "hide failed", path)>>),
                                 <<Step("match", path, TRUE),
                                   Step("hide", path, h.ok)>>)

\* handle_event: no candidate ends it silently, a missing path ends it with an
\* error; a candidate passes the type filter, then the pattern filter, and is
\* then reported (test) or hidden.
handle_event(pf, fs_, event, m, types_, test_, verbose_) ==
    IF get_path(event) = None THEN Dispatched("Skipped", fs_, <<>>, <<>>)
    ELSE IF ~IsOk(Unwrap(get_path(event)))
    THEN Dispatched("Skipped", fs_,
                    <<Line("stderr", Val(Unwrap(get_path(event))), <<>>)>>, <<>>)
    ELSE LET path == Val(Unwrap(get_path(event)))
             tm == file_type_matches(fs_, path, types_, verbose_)
             pm == path_matches_pattern(m, path, verbose_)
         IN  IF ~tm.ret
             THEN Dispatched("Skipped", fs_, tm.out, <<Step("type", path, FALSE)>>)
             ELSE IF ~pm.ret
             THEN Dispatched("Skipped", fs_, tm.out \o pm.out,
                             <<Step("type", path, TRUE), Step("match", path, FALSE)>>)
             ELSE IF test_
             THEN Dispatched("WouldHide", fs_,
                             tm.out \o pm.out \o <<Line("stdout", "Would hide", path)>>,
                             <<Step("type", path, TRUE), Step("match", path, TRUE),
                               Step("would_hide", path, TRUE)>>)
             ELSE LET h == hide(pf, fs_, path)
                  IN  Dispatched(IF h.ok THEN "Hidden" ELSE "Failed", h.fs,
                                 tm.out \o pm.out
                                 \o (IF verbose_
                                     THEN <<Line("stdout", "Hiding", path)>> ELSE <<>>)
                                 \o (IF h.ok THEN <<>>
                                     ELSE <<Line("stderr", "hide failed", path)>>),
                                 <<Step("type", path, TRUE), Step("match", path, TRUE),
                                   Step("hide", path, h.ok)>>)

(***************************************************************************)
(* main.rs keeps a search and a handle_event of its own, which go through  *)
(* filesystem::matches_type and Matcher::matches directly: they print no   *)
(* verbose reason for a skip, and they convert the path with to_str and    *)
(* drop the entry when the conversion fails.                               *)
(***************************************************************************)
\* main.rs search, for one item the walk yields.
main_search_entry(pf, fs_, item, m, types_, test_, verbose_) ==
    IF ~IsOk(item)
    THEN Dispatched("Skipped", fs_, <<Line("stderr", "Failed to get path.", Val(item))>>,
                    <<>>)
    ELSE LET path == Val(item)
             tr == IF types_ = None THEN Ok(TRUE)
                   ELSE matches_type(fs_, path, Unwrap(types_))
         IN  IF ~IsOk(tr)
             THEN Dispatched("Skipped", fs_, <<Line("stderr", Val(tr), path)>>,
                             <<Step("type", path, FALSE)>>)
             ELSE IF ~Val(tr)
             THEN Dispatched("Skipped", fs_, <<>>, <<Step("type", path, FALSE)>>)
             ELSE IF to_str(as_os_str(path)) = None
             THEN Dispatched("Skipped", fs_,
                             <<Line("stderr", "Failed to convert path to string", path)>>,
                             <<Step("type", path, TRUE), Step("to_str", path, FALSE)>>)
             ELSE IF ~matches(m, path).result
             THEN Dispatched("Skipped", fs_, <<>>,
                             <<Step("type", path, TRUE), Step("match", path, FALSE)>>)
             ELSE IF test_
             THEN Dispatched("WouldHide", fs_, <<Line("stdout", "Would hide", path)>>,
                             <<Step("type", path, TRUE), Step("match", path, TRUE),
                               Step("would_hide", path, TRUE)>>)
             ELSE LET h == hide(pf, fs_, path)
                  IN  Dispatched(IF h.ok THEN "Hidden" ELSE "Failed", h.fs,
                                 (IF verbose_
                                  THEN <<Line("stdout", "Hiding", path)>> ELSE <<>>)
                                 \o (IF h.ok THEN <<>>
                                     ELSE <<Line("stderr", "hide failed", path)>>),
                                 <<Step("type", path, TRUE), Step("match", path, TRUE),
                                   Step("hide", path, h.ok)>>)

\* main.rs handle_event: the path is picked by the match on the event's kind.
main_handle_event(pf, fs_, event, m, types_, test_, verbose_) ==
    IF ~(IsCreate(event.kind)
         \/ (IsModifyName(event.kind) /\ event.kind # <<"Modify", "Name", "From">>))
    THEN Dispatched("Skipped", fs_, <<>>, <<>>)
    ELSE IF event.paths = <<>>
    THEN Dispatched("Skipped", fs_,
                    <<Line("stderr", "Failed to get path from event", <<>>)>>, <<>>)
    ELSE LET path == IF IsCreate(event.kind) THEN event.paths[1]
                     ELSE IF Len(event.paths) >= 2 THEN event.paths[2]
                     ELSE event.paths[1]
             tr == IF types_ = None THEN Ok(TRUE)
                   ELSE matches_type(fs_, path, Unwrap(types_))
         IN  IF ~IsOk(tr)
             THEN Dispatched("Skipped", fs_, <<Line("stderr", Val(tr), path)>>,
                             <<Step("type", path, FALSE)>>)
             ELSE IF ~Val(tr)
             THEN Dispatched("Skipped", fs_, <<>>, <<Step("type", path, FALSE)>>)
             ELSE IF to_str(as_os_str(path)) = None
             THEN Dispatched("Skipped", fs_,
                             <<Line("stderr", "Failed to convert path to string", path)>>,
                             <<Step("type", path, TRUE), Step("to_str", path, FALSE)>>)
             ELSE IF ~matches(m, path).result
             THEN Dispatched("Skipped", fs_, <<>>,
                             <<Step("type", path, TRUE), Step("match", path, FALSE)>>)
             ELSE IF test_
             THEN Dispatched("WouldHide", fs_, <<Line("stdout", "Would hide", path)>>,
                             <<Step("type", path, TRUE), Step("match", path, TRUE),
                               Step("would_hide", path, TRUE)>>)
             ELSE LET h == hide(pf, fs_, path)
                  IN  Dispatched(IF h.ok THEN "Hidden" ELSE "Failed", h.fs,
                                 (IF verbose_
                                  THEN <<Line("stdout", "Hiding", path)>> ELSE <<>>)
                                 \o (IF h.ok THEN <<>>
                                     ELSE <<Line("stderr", "hide failed", path)>>),
                                 <<Step("type", path, TRUE), Step("match", path, TRUE),
                                   Step("hide", path, h.ok)>>)

(***************************************************************************)
(* The file systems the checks start from: the ancestors of one path are   *)
(* directories, the path itself is missing or holds an entry of any kind   *)
(* (a directory with or without a child), and the name the Unix hide would *)
(* rename it to is free or taken by a file or a directory.                 *)
(***************************************************************************)
EmptyFs == [q \in {} |-> Entry("file", FALSE)]

Ancestors(path) == { SubSeq(path, 1, k) : k \in 1..(Len(path) - 1) }

ChildOf(path) == Append(path, <<"a">>)

EntryShapes(path, hiddens) ==
    { EmptyFs }
    \cup { (path :> Entry(k, h)) : k \in Kinds, h \in hiddens }
    \cup IF Len(path) < MaxDepth
         THEN { (path :> Entry("dir", h)) @@ (ChildOf(path) :> Entry("file", FALSE)) :
                    h \in hiddens }
         ELSE {}

DotSibling(path) ==
    IF to_str(path[Len(path)]) # None /\ Head(path[Len(path)]) # "."
    THEN Some(SubSeq(path, 1, Len(path) - 1) \o << <<".">> \o path[Len(path)] >>)
    ELSE None

SiblingShapes(path) ==
    IF DotSibling(path) = None THEN { EmptyFs }
    ELSE EntryShapes(Unwrap(DotSibling(path)), {FALSE})

FsAround(path, pf) ==
    { [q \in Ancestors(path) |-> Entry("dir", FALSE)] @@ e @@ s :
        e \in EntryShapes(path, IF pf = "windows" THEN BOOLEAN ELSE {FALSE}),
        s \in { x \in SiblingShapes(path) :
                  \A q \in DOMAIN x : x[q].kind \in {"file", "dir"} } }

(***************************************************************************)
(* The configurations the dispatch checks run under.                       *)
(***************************************************************************)
NoMatcher ==
    [globs |-> None, globs_exclude |-> None, regexes |-> None, regexes_exclude |-> None]

RunMatchers ==
    { NoMatcher,
      [NoMatcher EXCEPT !.globs = Some({ <<"STAR", "b">> })],
      [NoMatcher EXCEPT !.regexes = Some({ <<"a">> }),
                        !.globs_exclude = Some({ <<"/", "QM">> })],
      [NoMatcher EXCEPT !.regexes_exclude = Some({ <<"/", "ANY", "/">> })] }

TypeSets == { None, Some({"File"}), Some({"Folder", "Symlink"}) }

(***************************************************************************)
(* State.                                                                  *)
(***************************************************************************)
VARIABLES
    matcher,       \* the Matcher built at startup
    types,         \* opts.types: the accepted object types, or None
    test,          \* opts.test
    verbose,       \* opts.verbose
    platform,      \* the target family the program was built for
    fs,            \* the file system
    arg_path,      \* the path handed to Matcher::matches
    match_result,  \* what Matcher::matches returned, or None before the call
    hide_path,     \* the path handed to hide
    hide_results,  \* what the successive calls of hide returned and left
    dispatchers,   \* the concurrent dispatches of one path: where each one is
    entry_path,    \* the path dispatched as a walk entry and as a watch candidate
    batch_out,     \* what search did with the entry, or None
    event,         \* the event handed to handle_event
    rename_of,     \* the rename (old, new) the event reports, or None
    candidate,     \* what get_path returned for the event
    watch_out,     \* what handle_event did with the event, or None
    main_batch_out, \* what main.rs search did with the entry, or None
    main_watch_out, \* what main.rs handle_event did with the event, or None
    type_result,   \* what matches_type returned for the entry, or None
    recursive,     \* opts.recursive
    watch_mode,    \* opts.watch
    walk,          \* search: "start" before the walk's iterator exists, then "iter"
    to_read,       \* the directories the walk has still to read
    yielded,       \* the items the walk has produced and search has not yet taken
    channel,       \* the watcher's channel: events sent and not yet received
    spawned,       \* the bag of events handed to the pool and not yet handled
    log,           \* what every dispatch so far did
    fault,         \* what is wrong with the configuration: "none", "pattern"
                   \* (a pattern does not parse), "root" (the root cannot be
                   \* opened) or "watcher" (the watcher cannot be created)
    exit_status,   \* None while main runs, then Some("success") or Some("failure")
    env_steps,     \* how many changes other programs have made
    pool           \* the rayon pool: its size, the tasks that hold a worker, and
                   \* where the closure of watch is

config == <<matcher, types, test, verbose, platform>>

matchVars == <<arg_path, match_result>>

hideVars == <<hide_path, hide_results, dispatchers>>

dispatchVars == <<entry_path, batch_out, event, rename_of, candidate, watch_out,
                  main_batch_out, main_watch_out, type_result>>

runVars == <<recursive, watch_mode, walk, to_read, yielded, channel, spawned, log,
             fault, exit_status, env_steps, pool>>

vars == <<config, fs, matchVars, hideVars, dispatchVars, runVars>>

NoEvent == Event(<<"Other">>, <<>>)

DefaultOptions == types = None /\ test = FALSE /\ verbose = FALSE /\ platform = "unix"

IdleMatch == arg_path = <<>> /\ match_result = None

IdleHide == hide_path = <<>> /\ hide_results = <<>> /\ dispatchers = <<>>

IdleDispatch ==
    /\ entry_path = <<>> /\ batch_out = None
    /\ event = NoEvent /\ rename_of = None /\ candidate = None /\ watch_out = None
    /\ main_batch_out = None /\ main_watch_out = None
    /\ type_result = None

IdleRun ==
    /\ recursive = FALSE /\ watch_mode = FALSE /\ walk = "start"
    /\ to_read = {} /\ yielded = {} /\ channel = <<>> /\ spawned = EmptyBag
    /\ log = {} /\ env_steps = 0
    /\ fault = "none" /\ exit_status = None
    /\ pool = <<>>

(***************************************************************************)
(* SpecMatch: Matcher::matches applied to every path under every rule set. *)
(***************************************************************************)
InitMatch ==
    /\ matcher \in Matchers
    /\ DefaultOptions
    /\ fs = EmptyFs
    /\ arg_path \in Paths
    /\ match_result = None
    /\ IdleHide /\ IdleDispatch /\ IdleRun

CallMatches ==
    /\ match_result = None
    /\ match_result' = Some(matches(matcher, arg_path))
    /\ UNCHANGED <<config, fs, arg_path, hideVars, dispatchVars, runVars>>

NextMatch == CallMatches

SpecMatch == InitMatch /\ [][NextMatch]_vars

(***************************************************************************)
(* SpecHide: hide called twice in sequence on one path.                    *)
(***************************************************************************)
InitHide ==
    /\ matcher = NoMatcher
    /\ types = None /\ test = FALSE /\ verbose = FALSE
    /\ platform \in Platforms
    /\ hide_path \in Paths
    /\ fs \in FsAround(hide_path, platform)
    /\ hide_results = <<>> /\ dispatchers = <<>>
    /\ IdleMatch /\ IdleDispatch /\ IdleRun

CallHide ==
    /\ Len(hide_results) < 2
    /\ LET r == hide(platform, fs, hide_path)
       IN  /\ fs' = r.fs
           /\ hide_results' = Append(hide_results, r)
    /\ UNCHANGED <<config, matchVars, hide_path, dispatchers, dispatchVars, runVars>>

NextHide == CallHide

SpecHide == InitHide /\ [][NextHide]_vars

(***************************************************************************)
(* SpecDispatch: one path processed as an entry of the batch walk and as   *)
(* the candidate of a watch event, from the same file system.              *)
(***************************************************************************)
\* The events whose candidate is the path.
CandidateEvents(path) ==
    { Event(<<"Create">>, <<path>>), Event(<<"Modify", "Name", "To">>, <<path>>),
      Event(<<"Modify", "Name", "Both">>, << <<"b">>, path >>) }

InitDispatch ==
    /\ matcher \in RunMatchers
    /\ types \in TypeSets
    /\ test \in BOOLEAN
    /\ verbose \in BOOLEAN
    /\ platform \in Platforms
    /\ entry_path \in Paths
    /\ fs \in FsAround(entry_path, platform)
    /\ batch_out = None /\ watch_out = None
    /\ main_batch_out = None /\ main_watch_out = None
    /\ type_result = None
    /\ event = NoEvent /\ rename_of = None /\ candidate = None
    /\ IdleMatch /\ IdleHide /\ IdleRun

ProcessAsBatchEntry ==
    /\ batch_out = None
    /\ batch_out' = Some(search_entry(platform, fs, Ok(entry_path), matcher, types,
                                      test, verbose))
    /\ main_batch_out' = Some(main_search_entry(platform, fs, Ok(entry_path), matcher,
                                                types, test, verbose))
    /\ UNCHANGED <<config, fs, matchVars, hideVars, entry_path, event, rename_of,
                   candidate, watch_out, main_watch_out, type_result, runVars>>

ProcessAsWatchCandidate ==
    /\ batch_out # None /\ watch_out = None
    /\ \E e \in CandidateEvents(entry_path) :
          /\ event' = e
          /\ candidate' = get_path(e)
          /\ watch_out' = Some(handle_event(platform, fs, e, matcher, types, test,
                                            verbose))
          /\ main_watch_out' = Some(main_handle_event(platform, fs, e, matcher, types,
                                                      test, verbose))
    /\ UNCHANGED <<config, fs, matchVars, hideVars, entry_path, batch_out,
                   main_batch_out, type_result, rename_of, runVars>>

NextDispatch == ProcessAsBatchEntry \/ ProcessAsWatchCandidate

SpecDispatch == InitDispatch /\ [][NextDispatch]_vars

(***************************************************************************)
(* SpecType: matches_type applied to one path holding an entry of any kind *)
(* (or none), under every accepted-type set.                               *)
(***************************************************************************)
InitType ==
    /\ matcher = NoMatcher
    /\ types \in { Some(t) : t \in SUBSET ObjectTypes }
    /\ test = FALSE /\ verbose = FALSE /\ platform = "unix"
    /\ entry_path \in Paths
    /\ fs \in FsAround(entry_path, platform)
    /\ type_result = None
    /\ batch_out = None /\ watch_out = None
    /\ main_batch_out = None /\ main_watch_out = None
    /\ event = NoEvent /\ rename_of = None /\ candidate = None
    /\ IdleMatch /\ IdleHide /\ IdleRun

CallMatchesType ==
    /\ type_result = None
    /\ type_result' = Some(matches_type(fs, entry_path, Unwrap(types)))
    /\ UNCHANGED <<config, fs, matchVars, hideVars, entry_path, batch_out, event,
                   rename_of, candidate, watch_out, main_batch_out, main_watch_out,
                   runVars>>

NextType == CallMatchesType

SpecType == InitType /\ [][NextType]_vars

(***************************************************************************)
(* SpecEvent: handle_event applied to one event of any kind, with no, one  *)
(* or two paths.  A rename of old to new is reported as one name-change    *)
(* event carrying both paths (or, where the platform omits the old path,   *)
(* the new path alone), or as a rename-from event carrying the old path    *)
(* and a rename-to event carrying the new one.                             *)
(***************************************************************************)
EventPaths == PathsOfDepth(1)

PathLists ==
    { <<>> } \cup { <<p>> : p \in EventPaths }
    \cup { <<p, q>> : p \in EventPaths, q \in EventPaths }

EventUniverse == { Event(k, ps) : k \in EventKinds, ps \in PathLists }

RenameReports(old, new) ==
    { Event(<<"Modify", "Name", "Both">>, <<old, new>>),
      Event(<<"Modify", "Name", "Both">>, <<new>>),
      Event(<<"Modify", "Name", "From">>, <<old>>),
      Event(<<"Modify", "Name", "To">>, <<new>>) }

\* The paths of the event all exist as files, or none exists.
EventFs(e) ==
    { EmptyFs,
      [q \in { e.paths[i] : i \in 1..Len(e.paths) } |-> Entry("file", FALSE)] }

InitEvent ==
    /\ matcher \in { NoMatcher, [NoMatcher EXCEPT !.globs = Some({ <<"STAR", "b">> })] }
    /\ types \in { None, Some({"File"}) }
    /\ test \in BOOLEAN
    /\ verbose = FALSE
    /\ platform \in Platforms
    /\ \/ rename_of = None /\ event \in EventUniverse
       \/ \E old \in EventPaths, new \in EventPaths :
             /\ old # new
             /\ rename_of = Some([old |-> old, new |-> new])
             /\ event \in RenameReports(old, new)
    /\ fs \in EventFs(event)
    /\ candidate = None /\ watch_out = None
    /\ entry_path = <<>> /\ batch_out = None
    /\ main_batch_out = None /\ main_watch_out = None
    /\ type_result = None
    /\ IdleMatch /\ IdleHide /\ IdleRun

CallHandleEvent ==
    /\ watch_out = None
    /\ candidate' = get_path(event)
    /\ watch_out' = Some(handle_event(platform, fs, event, matcher, types, test, verbose))
    /\ main_watch_out' = Some(main_handle_event(platform, fs, event, matcher, types,
                                                test, verbose))
    /\ UNCHANGED <<config, fs, matchVars, hideVars, entry_path, batch_out,
                   main_batch_out, type_result, event, rename_of, runVars>>

NextEvent == CallHandleEvent

SpecEvent == InitEvent /\ [][NextEvent]_vars

(***************************************************************************)
(* SpecRace: one path dispatched by several threads at once (the batch     *)
(* pass and handlers of watch events).  Each dispatch runs the filters,    *)
(* then the checks of hide, then the system call of hide; the threads      *)
(* interleave between these steps.                                         *)
(***************************************************************************)
MaxDispatchers == 2

\* The part of hide before its changing system call: "ok" and "err" are its
\* early returns, "act" leads on to the system call.
hide_checks(pf, fs_, path) ==
    IF pf = "unix"
    THEN IF file_name(path) = None THEN "err"
         ELSE IF to_str(Unwrap(file_name(path))) = None THEN "err"
         ELSE IF Head(Unwrap(file_name(path))) = "." THEN "ok"
         ELSE IF parent(path) = None THEN "err"
         ELSE "act"
    ELSE IF metadata(fs_, path) = None THEN "err"
         ELSE IF Unwrap(metadata(fs_, path)).hidden \/ path \notin DOMAIN fs_ THEN "ok"
         ELSE "act"

\* The changing system call of hide: fs::rename on Unix, SetFileAttributesW
\* on Windows.
hide_acts(pf, fs_, path) ==
    IF pf = "unix"
    THEN rename(fs_, path,
                Unwrap(parent(path)) \o << <<".">> \o Unwrap(file_name(path)) >>)
    ELSE IF path \notin DOMAIN fs_ THEN [ok |-> FALSE, fs |-> fs_]
         ELSE [ok |-> TRUE, fs |-> [fs_ EXCEPT ![path] = Entry(fs_[path].kind, TRUE)]]

Dispatcher(src, pc, err) == [src |-> src, pc |-> pc, err |-> err]

InitRace ==
    /\ matcher \in { NoMatcher, [NoMatcher EXCEPT !.globs = Some({ <<"STAR", "b">> })] }
    /\ types \in { None, Some({"File"}) }
    /\ test \in BOOLEAN
    /\ verbose = FALSE
    /\ platform \in Platforms
    /\ entry_path \in PathsOfDepth(1)
    /\ fs \in FsAround(entry_path, platform)
    /\ batch_out = Some(search_entry(platform, fs, Ok(entry_path), matcher, types, test,
                                     verbose))
    /\ \E first \in { "batch", "watch" } :
          dispatchers = [i \in 1..MaxDispatchers |->
                           Dispatcher(IF i = 1 THEN first ELSE "watch", "filter", FALSE)]
    /\ hide_path = <<>> /\ hide_results = <<>>
    /\ watch_out = None /\ main_batch_out = None /\ main_watch_out = None
    /\ type_result = None
    /\ event = NoEvent /\ rename_of = None /\ candidate = None
    /\ IdleMatch /\ IdleRun

\* The thread takes the path through the type filter and the pattern filter.
RaceFilter(i) ==
    /\ dispatchers[i].pc = "filter"
    /\ LET tm == file_type_matches(fs, entry_path, types, verbose)
           pm == path_matches_pattern(matcher, entry_path, verbose)
           src == dispatchers[i].src
       IN  dispatchers' =
             [dispatchers EXCEPT ![i] =
                IF ~tm.ret THEN Dispatcher(src, "done", tm.out # <<>>)
                ELSE IF ~pm.ret \/ test THEN Dispatcher(src, "done", FALSE)
                ELSE Dispatcher(src, "check", FALSE)]
    /\ UNCHANGED fs
    /\ UNCHANGED <<config, matchVars, hide_path, hide_results, dispatchVars, runVars>>

\* The thread enters hide and runs its checks.
RaceCheck(i) ==
    /\ dispatchers[i].pc = "check"
    /\ LET c == hide_checks(platform, fs, entry_path)
           src == dispatchers[i].src
       IN  dispatchers' =
             [dispatchers EXCEPT ![i] =
                IF c = "act" THEN Dispatcher(src, "act", FALSE)
                ELSE Dispatcher(src, "done", c = "err")]
    /\ UNCHANGED fs
    /\ UNCHANGED <<config, matchVars, hide_path, hide_results, dispatchVars, runVars>>

\* The thread makes the system call of hide; an error is printed by the
\* caller, and the thread is done.
RaceAct(i) ==
    /\ dispatchers[i].pc = "act"
    /\ LET h == hide_acts(platform, fs, entry_path)
       IN  /\ fs' = h.fs
           /\ dispatchers' =
                 [dispatchers EXCEPT ![i] = Dispatcher(dispatchers[i].src, "done", ~h.ok)]
    /\ UNCHANGED <<config, matchVars, hide_path, hide_results, dispatchVars, runVars>>

RaceStep(i) == RaceFilter(i) \/ RaceCheck(i) \/ RaceAct(i)

NextRace ==
    \/ \E i \in 1..MaxDispatchers : RaceFilter(i)
    \/ \E i \in 1..MaxDispatchers : RaceCheck(i)
    \/ \E i \in 1..MaxDispatchers : RaceAct(i)

SpecRace == InitRace /\ [][NextRace]_vars

(***************************************************************************)
(* Spec: a run of the program.  search walks the root and dispatches every *)
(* item of the walk; with --watch, watch receives the events the watcher   *)
(* sends and hands each to the pool, where handle_event dispatches it,     *)
(* while other programs create and rename entries below the root.  The     *)
(* root is the current directory: it always exists and has no file name.   *)
(***************************************************************************)
MaxEnv == 1

Root == <<>>

InitTree ==
    (<< <<"a">> >> :> Entry("dir", FALSE))
    @@ (<< <<"a">>, <<"b">> >> :> Entry("file", FALSE))

\* The names other programs give the entries they create or rename.
EnvNames == { <<"a">> }

Children(fs_, dir) == { q \in DOMAIN fs_ : parent(q) = Some(dir) }

IsDir(fs_, path) ==
    metadata(fs_, path) # None /\ Unwrap(metadata(fs_, path)).is_dir

\* watch registers the root with the watcher: recursively, or for its direct
\* entries only.
\* The watcher sends nothing when it could not be created or could not watch
\* the root.
Watched(path) ==
    watch_mode /\ fault = "none" /\ (recursive \/ parent(path) = Some(Root))

\* What the watcher sends when old is renamed to new: a rename-from event and
\* a rename-to event (SpecEvent covers the other ways of reporting a rename).
RenameEvents(old, new) ==
    IF ~Watched(new) THEN { <<>> }
    ELSE { << Ok(Event(<<"Modify", "Name", "From">>, <<old>>)),
              Ok(Event(<<"Modify", "Name", "To">>, <<new>>)) >> }

\* What the watcher sends for the change hide made to path: the rename on
\* Unix, the attribute change on Windows; nothing when nothing changed or
\* the path is not watched.
HideEvents(before, after, path) ==
    IF ~Watched(path) \/ before = after THEN { <<>> }
    ELSE IF platform = "windows"
    THEN { << Ok(Event(<<"Modify", "Any">>, <<path>>)) >> }
    ELSE RenameEvents(path, SubSeq(path, 1, Len(path) - 1)
                                \o << <<".">> \o path[Len(path)] >>)

Logged(src, d) ==
    [src |-> src, outcome |-> d.outcome, out |-> d.out, steps |-> d.steps]

Init ==
    /\ matcher \in { NoMatcher, [NoMatcher EXCEPT !.globs = Some({ <<"STAR", "b">> })] }
    /\ types \in { None, Some({"File"}) }
    /\ test \in BOOLEAN
    /\ verbose = FALSE
    /\ platform \in Platforms
    /\ recursive \in BOOLEAN
    /\ watch_mode \in BOOLEAN
    /\ fs = InitTree
    /\ walk = "start"
    /\ to_read = {} /\ yielded = {}
    /\ channel = <<>> /\ spawned = EmptyBag
    /\ log = {} /\ env_steps = 0
    /\ fault \in { "none", "pattern", "root", "watcher" }
    /\ fault = "pattern" => matcher = NoMatcher
    /\ fault = "watcher" => watch_mode
    /\ exit_status = None
    /\ pool = <<>>
    /\ IdleMatch /\ IdleHide /\ IdleDispatch

\* search: the walk's iterator starts; it yields the root and reads it, or
\* yields an error when the root cannot be opened.  main calls search only
\* after Matcher::new has returned a matcher.
StartWalk ==
    /\ walk = "start" /\ fault # "pattern"
    /\ walk' = "iter"
    /\ yielded' = IF fault = "root" THEN { Err(Root) } ELSE { Ok(Root) }
    /\ to_read' = IF fault = "root" THEN {} ELSE { Root }
    /\ UNCHANGED <<config, pool, fs, matchVars, hideVars, dispatchVars, recursive,
                   watch_mode, fault, channel, spawned, log, env_steps,
                   exit_status>>

\* The walk reads one directory: its entries are yielded, and the directories
\* among them (links followed) are read in turn when the walk is recursive.  A
\* directory that is gone yields an error.
WalkReadDir(dir) ==
    /\ walk = "iter"
    /\ dir \in to_read
    /\ IF IsDir(fs, dir)
       THEN /\ yielded' = yielded \cup { Ok(q) : q \in Children(fs, dir) }
            /\ to_read' = (to_read \ {dir})
                          \cup { q \in Children(fs, dir) : recursive /\ IsDir(fs, q) }
       ELSE /\ yielded' = yielded \cup { Err(dir) }
            /\ to_read' = to_read \ {dir}
    /\ UNCHANGED <<config, pool, fs, matchVars, hideVars, dispatchVars, recursive,
                   watch_mode, fault, walk, channel, spawned, log, env_steps,
                   exit_status>>

\* A dispatch that reported an error or whose hide failed.
Failure(d) ==
    \/ d.outcome = "Failed"
    \/ \E i \in 1..Len(d.out) : d.out[i].stream = "stderr"

BatchEntry_failure_aborts(item) ==
    /\ item \in yielded
    /\ \E d \in { search_entry(platform, fs, item, matcher, types, test, verbose) } :
           /\ fs' = d.fs
           /\ log' = log \cup { Logged("batch", d) }
           /\ \E sent \in HideEvents(fs, d.fs, Val(item)) : channel' = channel \o sent
           /\ yielded' = IF Failure(d) THEN {} ELSE yielded \ {item}
    /\ UNCHANGED <<config, pool, matchVars, hideVars, dispatchVars, recursive, watch_mode, fault,
                   walk, to_read, spawned, env_steps,
                   exit_status>>

\* search takes one item of the walk through the filters and the action.
BatchEntry(item) ==
    /\ item \in yielded
    /\ \E d \in { search_entry(platform, fs, item, matcher, types, test, verbose) } :
           /\ fs' = d.fs
           /\ log' = log \cup { Logged("batch", d) }
           /\ \E sent \in HideEvents(fs, d.fs, Val(item)) : channel' = channel \o sent
    /\ yielded' = yielded \ {item}
    /\ UNCHANGED <<config, pool, matchVars, hideVars, dispatchVars, recursive, watch_mode, fault,
                   walk, to_read, spawned, env_steps,
                   exit_status>>

\* search returns when the walk has nothing more to yield.
SearchReturns ==
    /\ walk = "iter" /\ to_read = {} /\ yielded = {}
    /\ walk' = "done"
    /\ UNCHANGED <<config, pool, fs, matchVars, hideVars, dispatchVars, recursive,
                   watch_mode, fault, to_read, yielded, channel, spawned, log,
                   env_steps, exit_status>>

\* main returns: with the error of Matcher::new before anything else ran;
\* with Ok when search has returned in batch mode; with the error of watch
\* once the scope has joined the search thread in watch mode.  A watch that
\* started does not return.
MainReturns ==
    /\ exit_status = None
    /\ \/ fault = "pattern" /\ exit_status' = Some("failure")
       \/ fault # "pattern" /\ ~watch_mode /\ walk = "done"
          /\ exit_status' = Some("success")
       \/ fault \in { "root", "watcher" } /\ watch_mode /\ walk = "done"
          /\ exit_status' = Some("failure")
    /\ UNCHANGED <<config, pool, fs, matchVars, hideVars, dispatchVars, recursive,
                   watch_mode, fault, walk, to_read, yielded, channel, spawned, log,
                   env_steps>>

\* watch receives the next event and spawns its handler on the pool; an error
\* sent in place of an event is printed.
WatchRecv ==
    /\ watch_mode
    /\ channel # <<>>
    /\ channel' = Tail(channel)
    /\ spawned' = IF IsOk(Head(channel)) THEN spawned (+) SetToBag({Val(Head(channel))})
                  ELSE spawned
    /\ UNCHANGED <<config, pool, fs, matchVars, hideVars, dispatchVars, recursive,
                   watch_mode, fault, walk, to_read, yielded, log, env_steps,
                   exit_status>>

\* A pool thread runs the handler of one spawned event.
HandleEvent(e) ==
    /\ BagIn(e, spawned)
    /\ \E d \in { handle_event(platform, fs, e, matcher, types, test, verbose) } :
           /\ fs' = d.fs
           /\ log' = log \cup { Logged("watch", d) }
           /\ \E sent \in HideEvents(fs, d.fs,
                                     IF d.steps = <<>> THEN Root ELSE d.steps[1].path) :
                 channel' = channel \o sent
    /\ spawned' = spawned (-) SetToBag({e})
    /\ UNCHANGED <<config, pool, matchVars, hideVars, dispatchVars, recursive, watch_mode, fault,
                   walk, to_read, yielded, env_steps,
                   exit_status>>

\* Another program creates an entry while cloak runs.
EnvCreate(path, kind) ==
    /\ exit_status = None /\ fault = "none" /\ env_steps < MaxEnv
    /\ path \notin DOMAIN fs
    /\ parent(path) = Some(Root) \/ (Unwrap(parent(path)) \in DOMAIN fs
                                     /\ fs[Unwrap(parent(path))].kind = "dir")
    /\ fs' = fs @@ (path :> Entry(kind, FALSE))
    /\ channel' = IF Watched(path)
                  THEN Append(channel, Ok(Event(<<"Create">>, <<path>>)))
                  ELSE channel
    /\ env_steps' = env_steps + 1
    /\ UNCHANGED <<config, pool, matchVars, hideVars, dispatchVars, recursive, watch_mode, fault,
                   walk, to_read, yielded, spawned, log,
                   exit_status>>

\* Another program renames an entry within its directory.
EnvRename(old, new) ==
    /\ exit_status = None /\ fault = "none" /\ env_steps < MaxEnv
    /\ old \in DOMAIN fs /\ new \notin DOMAIN fs
    /\ parent(old) = parent(new)
    /\ fs' = rename(fs, old, new).fs
    /\ \E sent \in RenameEvents(old, new) : channel' = channel \o sent
    /\ env_steps' = env_steps + 1
    /\ UNCHANGED <<config, pool, matchVars, hideVars, dispatchVars, recursive, watch_mode, fault,
                   walk, to_read, yielded, spawned, log,
                   exit_status>>

\* Another program writes to an entry it owns.
EnvModify(path) ==
    /\ watch_mode /\ env_steps < MaxEnv
    /\ path \in DOMAIN fs /\ Watched(path)
    /\ path[Len(path)] \in EnvNames
    /\ channel' = Append(channel, Ok(Event(<<"Modify", "Data">>, <<path>>)))
    /\ env_steps' = env_steps + 1
    /\ UNCHANGED <<config, pool, fs, matchVars, hideVars, dispatchVars, recursive,
                   watch_mode, fault, walk, to_read, yielded, spawned, log,
                   exit_status>>

\* The paths an entry with one of these names can have in a directory.
EnvPaths(dirs) ==
    { Append(d, n) : d \in { x \in dirs : Len(x) < MaxDepth }, n \in EnvNames }

EnvStep ==
    \/ \E path \in EnvPaths({Root} \cup DOMAIN fs) : EnvCreate(path, "file")
    \/ \E old \in DOMAIN fs :
          \E new \in EnvPaths({Unwrap(parent(old))}) : EnvRename(old, new)
    \/ \E path \in DOMAIN fs : EnvModify(path)

Next ==
    \/ StartWalk
    \/ \E dir \in to_read : WalkReadDir(dir)
    \/ \E item \in yielded : BatchEntry(item)
    \/ SearchReturns
    \/ MainReturns
    \/ WatchRecv
    \/ \E e \in BagToSet(spawned) : HandleEvent(e)
    \/ EnvStep

Spec == Init /\ [][Next]_vars

\* The steps of the program itself, as opposed to those of other programs.
ProgramStep ==
    \/ StartWalk
    \/ \E dir \in to_read : WalkReadDir(dir)
    \/ \E item \in yielded : BatchEntry(item)
    \/ SearchReturns
    \/ MainReturns
    \/ WatchRecv
    \/ \E e \in BagToSet(spawned) : HandleEvent(e)

\* The program's threads keep running; other programs may stop at any time.
FairSpec == Spec /\ WF_vars(ProgramStep)

(***************************************************************************)
(* SpecOwnEvents: watch after the batch pass, with one entry in any of its *)
(* shapes and one event about it in the channel.  The loop of watch and    *)
(* the handlers run as in Spec; the only further events are those that the *)
(* program's own hide causes.                                              *)
(***************************************************************************)
InitOwnEvents ==
    /\ matcher \in { NoMatcher, [NoMatcher EXCEPT !.globs = Some({ <<"STAR", "b">> })] }
    /\ types \in { None, Some({"File"}) }
    /\ test = FALSE /\ verbose = FALSE
    /\ platform \in Platforms
    /\ recursive \in BOOLEAN /\ watch_mode = TRUE
    /\ entry_path \in PathsOfDepth(1)
    /\ fs \in FsAround(entry_path, platform)
    /\ \E kind \in { <<"Create">>, <<"Modify", "Name", "To">> } :
          channel = << Ok(Event(kind, <<entry_path>>)) >>
    /\ walk = "done" /\ to_read = {} /\ yielded = {}
    /\ spawned = EmptyBag /\ log = {} /\ env_steps = 0
    /\ fault = "none" /\ exit_status = None /\ pool = <<>>
    /\ batch_out = None /\ watch_out = None
    /\ main_batch_out = None /\ main_watch_out = None /\ type_result = None
    /\ event = NoEvent /\ rename_of = None /\ candidate = None
    /\ IdleMatch /\ IdleHide

NextOwnEvents ==
    \/ WatchRecv
    \/ \E e \in BagToSet(spawned) : HandleEvent(e)

SpecOwnEvents == InitOwnEvents /\ [][NextOwnEvents]_vars

FairSpecOwnEvents == SpecOwnEvents /\ WF_vars(NextOwnEvents)

(***************************************************************************)
(* SpecPool: who holds the workers of the rayon pool.  rayon::scope runs   *)
(* the closure of watch on a worker, which the loop then keeps while it    *)
(* blocks in rx.recv; s.spawn queues a handler for any worker that is      *)
(* free.  search's par_iter runs its closure for a root on a worker, which *)
(* the closure keeps while it waits for the walk; the walk itself is a     *)
(* task that jwalk spawns on the same pool, and try_into_iter fails when   *)
(* no worker starts that task within busy_timeout.  Entries and paths are  *)
(* left out: a walk is one task, an event is a number.                     *)
(***************************************************************************)
MaxPool == 3

MaxRoots == 1

MaxEvents == 2

FreeWorker == Cardinality(pool.busy) < pool.size

Pool(size, busy, watch_, open) ==
    [size |-> size, busy |-> busy, watch |-> watch_, open |-> open]

InitPool ==
    /\ verbose \in BOOLEAN
    /\ watch_mode \in BOOLEAN
    /\ fault \in { "none", "watcher" }
    /\ fault = "watcher" => watch_mode
    /\ \E size \in 1..MaxPool :
          pool = Pool(size, {}, IF watch_mode THEN "injected" ELSE "none", TRUE)
    /\ \E n \in 1..MaxRoots : walk = [r \in 1..n |-> "injected"]
    /\ channel = <<>> /\ spawned = EmptyBag
    /\ log = {} /\ env_steps = 0
    /\ exit_status = None
    /\ matcher = NoMatcher /\ types = None /\ test = FALSE /\ platform = "unix"
    /\ fs = EmptyFs
    /\ recursive = FALSE /\ to_read = {} /\ yielded = {}
    /\ IdleMatch /\ IdleHide /\ IdleDispatch

\* A worker takes the closure that rayon::scope injected for watch.  The
\* closure creates the watcher and registers the roots; when that fails it
\* returns the error at once, otherwise it enters the loop.
PoolStartWatch ==
    /\ pool.watch = "injected" /\ FreeWorker
    /\ pool' = IF fault = "watcher"
               THEN [pool EXCEPT !.watch = "ended"]
               ELSE [pool EXCEPT !.watch = "looping", !.busy = @ \cup { <<"watch">> }]
    /\ UNCHANGED <<config, fs, matchVars, hideVars, dispatchVars, recursive,
                   watch_mode, walk, to_read, yielded, channel, spawned, log, fault,
                   exit_status, env_steps>>

\* A worker takes the closure of par_iter for one root.
PoolStartRoot(r) ==
    /\ walk[r] = "injected" /\ FreeWorker
    /\ walk' = [walk EXCEPT ![r] = "starting"]
    /\ pool' = [pool EXCEPT !.busy = @ \cup { <<"search", r>> }]
    /\ log' = IF verbose THEN log \cup { Line("stdout", "Searching", r) } ELSE log
    /\ UNCHANGED <<config, fs, matchVars, hideVars, dispatchVars, recursive,
                   watch_mode, to_read, yielded, channel, spawned, fault,
                   exit_status, env_steps>>

try_into_iter_failed_skips(r) ==
    /\ walk[r] = "starting" /\ ~FreeWorker
    /\ walk' = [walk EXCEPT ![r] = "skipped"]
    /\ pool' = [pool EXCEPT !.busy = @ \ { <<"search", r>> }]
    /\ log' = log \cup { Line("retry", "try_into_iter failed", r) }
               \cup (IF verbose
                     THEN { Line("stderr", "Failed to start iteration", r) } ELSE {})
    /\ UNCHANGED <<config, fs, matchVars, hideVars, dispatchVars, recursive,
                   watch_mode, to_read, yielded, channel, spawned, fault,
                   exit_status, env_steps>>

\* try_into_iter returns an error: no worker started the walk's task in
\* time.  The closure prints a line when verbose is set, and loops.  (The
\* "retry" line is the record of the failed attempt, not output.)
try_into_iter_failed(r) ==
    /\ walk[r] = "starting" /\ ~FreeWorker
    /\ log' = log \cup { Line("retry", "try_into_iter failed", r) }
               \cup (IF verbose
                     THEN { Line("stderr", "Failed to start iteration", r) } ELSE {})
    /\ UNCHANGED <<config, fs, matchVars, hideVars, dispatchVars, recursive,
                   watch_mode, walk, to_read, yielded, channel, spawned, fault,
                   exit_status, env_steps, pool>>

\* try_into_iter returns the iterator: a worker has started the walk's task.
try_into_iter_ok(r) ==
    /\ walk[r] = "starting" /\ FreeWorker
    /\ walk' = [walk EXCEPT ![r] = "walking"]
    /\ pool' = [pool EXCEPT !.busy = @ \cup { <<"walk", r>> }]
    /\ UNCHANGED <<config, fs, matchVars, hideVars, dispatchVars, recursive,
                   watch_mode, to_read, yielded, channel, spawned, log, fault,
                   exit_status, env_steps>>

\* The walk of a root ends and the closure has taken its last entry: both
\* workers are free again.
PoolWalkEnds(r) ==
    /\ walk[r] = "walking"
    /\ walk' = [walk EXCEPT ![r] = "done"]
    /\ pool' = [pool EXCEPT !.busy = @ \ { <<"search", r>>, <<"walk", r>> }]
    /\ UNCHANGED <<config, fs, matchVars, hideVars, dispatchVars, recursive,
                   watch_mode, to_read, yielded, channel, spawned, log, fault,
                   exit_status, env_steps>>

\* The watcher sends an event, or an error in place of an event.
PoolSend(item) ==
    /\ pool.watch = "looping" /\ pool.open /\ env_steps < MaxEvents
    /\ item \in { Ok(env_steps + 1), Err(env_steps + 1) }
    /\ channel' = Append(channel, item)
    /\ env_steps' = env_steps + 1
    /\ UNCHANGED <<config, fs, matchVars, hideVars, dispatchVars, recursive,
                   watch_mode, walk, to_read, yielded, spawned, log, fault,
                   exit_status, pool>>

\* The sending side of the channel is dropped.
PoolDisconnect ==
    /\ pool.watch = "looping" /\ pool.open
    /\ pool' = [pool EXCEPT !.open = FALSE]
    /\ UNCHANGED <<config, fs, matchVars, hideVars, dispatchVars, recursive,
                   watch_mode, walk, to_read, yielded, channel, spawned, log, fault,
                   exit_status, env_steps>>

PoolRecv_error_ends_loop ==
    /\ pool.watch = "looping" /\ channel # <<>>
    /\ channel' = Tail(channel)
    /\ IF IsOk(Head(channel))
       THEN /\ spawned' = spawned (+) SetToBag({ Val(Head(channel)) })
            /\ UNCHANGED <<log, pool>>
       ELSE /\ log' = log \cup { Line("stderr", "event error", Val(Head(channel))) }
            /\ pool' = [pool EXCEPT !.watch = "ended", !.busy = @ \ { <<"watch">> }]
            /\ UNCHANGED spawned
    /\ UNCHANGED <<config, fs, matchVars, hideVars, dispatchVars, recursive,
                   watch_mode, walk, to_read, yielded, fault, exit_status, env_steps>>

\* The loop of watch receives the next item: an event is handed to the pool
\* with s.spawn, which queues it and returns; an error is printed.
PoolRecv ==
    /\ pool.watch = "looping" /\ channel # <<>>
    /\ channel' = Tail(channel)
    /\ IF IsOk(Head(channel))
       THEN /\ spawned' = spawned (+) SetToBag({ Val(Head(channel)) })
            /\ UNCHANGED log
       ELSE /\ log' = log \cup { Line("stderr", "event error", Val(Head(channel))) }
            /\ UNCHANGED spawned
    /\ UNCHANGED <<config, fs, matchVars, hideVars, dispatchVars, recursive,
                   watch_mode, walk, to_read, yielded, fault, exit_status, env_steps,
                   pool>>

\* rx.recv fails: the channel is empty and its sending side is gone.  The
\* closure returns the error and its worker is free for other tasks.
PoolRecvFails ==
    /\ pool.watch = "looping" /\ channel = <<>> /\ ~pool.open
    /\ pool' = [pool EXCEPT !.watch = "ended", !.busy = @ \ { <<"watch">> }]
    /\ UNCHANGED <<config, fs, matchVars, hideVars, dispatchVars, recursive,
                   watch_mode, walk, to_read, yielded, channel, spawned, log, fault,
                   exit_status, env_steps>>

\* A free worker runs the handler of a spawned event.
PoolRunHandler(k) ==
    /\ BagIn(k, spawned) /\ FreeWorker
    /\ spawned' = spawned (-) SetToBag({k})
    /\ log' = log \cup { Line("handled", "handle_event", k) }
    /\ UNCHANGED <<config, fs, matchVars, hideVars, dispatchVars, recursive,
                   watch_mode, walk, to_read, yielded, channel, fault,
                   exit_status, env_steps, pool>>

SearchDone == \A r \in DOMAIN walk : walk[r] \in { "done", "skipped" }

\* main returns: after search in batch mode; in watch mode when rayon::scope
\* has returned the error of watch, which it does once every spawned handler
\* has run, and the thread scope has joined the search thread.
PoolMainReturns ==
    /\ exit_status = None /\ SearchDone
    /\ \/ ~watch_mode /\ exit_status' = Some("success")
       \/ /\ watch_mode /\ pool.watch = "ended" /\ spawned = EmptyBag
          /\ exit_status' = Some("failure")
    /\ UNCHANGED <<config, fs, matchVars, hideVars, dispatchVars, recursive,
                   watch_mode, walk, to_read, yielded, channel, spawned, log, fault,
                   env_steps, pool>>

NextPool ==
    \/ PoolStartWatch
    \/ \E r \in DOMAIN walk : PoolStartRoot(r)
    \/ \E r \in DOMAIN walk : try_into_iter_failed(r)
    \/ \E r \in DOMAIN walk : try_into_iter_ok(r)
    \/ \E r \in DOMAIN walk : PoolWalkEnds(r)
    \/ \E item \in { Ok(env_steps + 1), Err(env_steps + 1) } : PoolSend(item)
    \/ PoolDisconnect
    \/ PoolRecv
    \/ PoolRecvFails
    \/ \E k \in BagToSet(spawned) : PoolRunHandler(k)
    \/ PoolMainReturns

SpecPool == InitPool /\ [][NextPool]_vars

\* The steps of the program's threads and of the pool's workers, as opposed
\* to those of the watcher and of the channel's sending side.
PoolProgramStep ==
    \/ PoolStartWatch
    \/ \E r \in DOMAIN walk : PoolStartRoot(r)
    \/ \E r \in DOMAIN walk : try_into_iter_failed(r)
    \/ \E r \in DOMAIN walk : try_into_iter_ok(r)
    \/ \E r \in DOMAIN walk : PoolWalkEnds(r)
    \/ PoolRecv
    \/ PoolRecvFails
    \/ \E k \in BagToSet(spawned) : PoolRunHandler(k)
    \/ PoolMainReturns

\* Fair scheduling: a thread that can go on does go on, and a task that a
\* free worker can take is taken.  (No step can be taken twice from the same
\* state, so that weak fairness of all the steps together lets none starve
\* that stays possible.)
FairPool == WF_vars(PoolProgramStep)

FairSpecPool == SpecPool /\ FairPool

\* What the rule sets say about the argument, stated without Matcher::matches.
ArgBytes == as_os_str(arg_path)

ArgText == to_string_lossy(ArgBytes)

ExcludeHit ==
    \/ matcher.globs_exclude # None /\ \E g \in Unwrap(matcher.globs_exclude) : GlobMatch(g, ArgBytes)
    \/ matcher.regexes_exclude # None
         /\ \E re \in Unwrap(matcher.regexes_exclude) :
              \E i \in 1..(Len(ArgText) + 1) : RegexMatchAt(re, ArgText, i)

IncludeHit ==
    \/ matcher.globs # None /\ \E g \in Unwrap(matcher.globs) : GlobMatch(g, ArgBytes)
    \/ matcher.regexes # None
         /\ \E re \in Unwrap(matcher.regexes) :
              \E i \in 1..(Len(ArgText) + 1) : RegexMatchAt(re, ArgText, i)

Called == match_result # None

\* C1: a path that matches an exclude glob or an exclude regex never matches
\* overall, whatever the include rules are.
C1_ExcludeWins == Called /\ ExcludeHit => Unwrap(match_result).result = FALSE

C1_Witness ==
    Called /\ ExcludeHit /\ IncludeHit /\ Unwrap(match_result).result = FALSE

\* C2: with exclude rules only (no include collection), a path that matches no
\* exclude rule matches overall.
C2_ExcludeOnlyAccepts ==
    (/\ Called
     /\ matcher.globs = None /\ matcher.regexes = None
     /\ (matcher.globs_exclude # None \/ matcher.regexes_exclude # None)
     /\ ~ExcludeHit)
    => Unwrap(match_result).result = TRUE

\* C3: with an include collection supplied, a path that matches no include
\* rule and no exclude rule does not match.
C3_IncludeMissRejects ==
    (/\ Called
     /\ (matcher.globs # None \/ matcher.regexes # None)
     /\ ~IncludeHit /\ ~ExcludeHit)
    => Unwrap(match_result).result = FALSE

C3_Witness ==
    /\ Called
    /\ matcher.globs # None /\ Unwrap(matcher.globs) # {}
    /\ ~IncludeHit /\ ~ExcludeHit
    /\ Unwrap(match_result).result = FALSE

\* C4: with no rule collection of any kind, every path matches and no rule
\* kind decided.
C4_NoRulesAccepts ==
    (/\ Called
     /\ matcher.globs = None /\ matcher.globs_exclude = None
     /\ matcher.regexes = None /\ matcher.regexes_exclude = None)
    => Unwrap(match_result).result = TRUE /\ Unwrap(match_result).matcher_type = None

C4_Witness ==
    /\ Called
    /\ matcher.globs = None /\ matcher.globs_exclude = None
    /\ matcher.regexes = None /\ matcher.regexes_exclude = None
    /\ Unwrap(match_result).result = TRUE

BatchGenerationsAgree ==
    batch_out # None =>
        Unwrap(batch_out).outcome = Unwrap(main_batch_out).outcome

IsAct(s) == s.step \in {"hide", "would_hide"}

\* The dispatch passed the type filter and the pattern filter.
Passed(r) ==
    /\ \E i \in DOMAIN r.steps : r.steps[i].step = "type" /\ r.steps[i].ret
    /\ \E i \in DOMAIN r.steps : r.steps[i].step = "match" /\ r.steps[i].ret

\* C6: in test mode no dispatch of a batch or watch run invokes hide, every
\* dispatch that passes both filters only prints "Would hide", and no step of
\* the program changes the file system.
C6_DryRunNoHide ==
    /\ [](test =>
            \A r \in log :
               /\ \A i \in DOMAIN r.steps : r.steps[i].step # "hide"
               /\ r.outcome \notin {"Hidden", "Failed"}
               /\ Passed(r) =>
                     /\ r.outcome = "WouldHide"
                     /\ \E i \in DOMAIN r.out :
                           r.out[i].stream = "stdout" /\ r.out[i].text = "Would hide")
    /\ [][test /\ fs' # fs => EnvStep]_vars

C6_Witness ==
    /\ test
    /\ \E r \in log : r.src = "batch" /\ r.outcome = "WouldHide"
    /\ \E r \in log : r.src = "watch" /\ r.outcome = "WouldHide"
    /\ fs # InitTree

\* C7: a dispatch hides or reports a path only after the type filter accepted
\* that path and then the matcher matched it; a dispatch rejected by either
\* never acts.
C7_FiltersBeforeAction ==
    \A r \in log :
       /\ \A i \in DOMAIN r.steps :
             IsAct(r.steps[i]) =>
                \E j \in 1..(i - 1), k \in 1..(i - 1) :
                   /\ j < k
                   /\ r.steps[j] = Step("type", r.steps[i].path, TRUE)
                   /\ r.steps[k] = Step("match", r.steps[i].path, TRUE)
       /\ (\E j \in DOMAIN r.steps : ~IsAct(r.steps[j]) /\ ~r.steps[j].ret)
             => /\ \A i \in DOMAIN r.steps : ~IsAct(r.steps[i])
                /\ r.outcome = "Skipped"
       /\ r.outcome # "Skipped" => \E i \in DOMAIN r.steps : IsAct(r.steps[i])

C7_Witness ==
    /\ types # None /\ matcher # NoMatcher
    /\ \E r \in log : r.src = "batch" /\ r.outcome = "Hidden"
    /\ \E r \in log : r.src = "watch" /\ r.outcome = "Hidden"
    /\ \E r \in log : r.steps # <<>> /\ r.steps[1].step = "type" /\ ~r.steps[1].ret
    /\ \E r \in log : Len(r.steps) = 2 /\ ~r.steps[2].ret

\* C8: hide called twice in sequence on the same path (the first call having
\* succeeded) leaves the file system as one call leaves it, and the second
\* call returns success.
C8_HideTwice ==
    Len(hide_results) = 2 /\ hide_results[1].ok =>
        /\ hide_results[2].fs = hide_results[1].fs
        /\ hide_results[2].ok

Handled == watch_out # None

CandidateIs(c, path) == c # None /\ IsOk(Unwrap(c)) /\ Val(Unwrap(c)) = path

\* C9: however a rename of old to new is reported, the only candidate is new,
\* never old, and a rename-from event has no candidate.
C9_RenameCandidate ==
    Handled /\ rename_of # None =>
        /\ ~CandidateIs(candidate, Unwrap(rename_of).old)
        /\ IF event.kind = <<"Modify", "Name", "From">>
           THEN /\ candidate = None
                /\ Unwrap(watch_out).steps = <<>>
                /\ Unwrap(main_watch_out).steps = <<>>
           ELSE /\ CandidateIs(candidate, Unwrap(rename_of).new)
                /\ Unwrap(watch_out).steps # <<>>
                /\ \A i \in 1..Len(Unwrap(watch_out).steps) :
                      Unwrap(watch_out).steps[i].path = Unwrap(rename_of).new
                /\ Unwrap(main_watch_out).steps # <<>>
                /\ \A i \in 1..Len(Unwrap(main_watch_out).steps) :
                      Unwrap(main_watch_out).steps[i].path = Unwrap(rename_of).new

C9_Witness ==
    /\ Handled /\ rename_of # None
    /\ event.kind = <<"Modify", "Name", "Both">> /\ Len(event.paths) = 2
    /\ CandidateIs(candidate, Unwrap(rename_of).new)
    /\ Unwrap(watch_out).outcome = "Hidden"

NothingDone ==
    /\ candidate = None
    /\ Unwrap(watch_out).steps = <<>>
    /\ Unwrap(watch_out).out = <<>>
    /\ Unwrap(watch_out).fs = fs
    /\ Unwrap(main_watch_out) = Unwrap(watch_out)

\* C10 as claimed: only Create, rename-to and combined rename events have a
\* candidate; every other kind, any other name-change variant included, has
\* none and triggers no type check, no match and no hide.
C10_OnlyCreateAndRenameTo ==
    /\ Handled
         /\ event.kind \notin { <<"Create">>, <<"Modify", "Name", "To">>,
                                <<"Modify", "Name", "Both">> }
       => NothingDone
    /\ Handled /\ candidate # None
       => event.kind \in { <<"Create">>, <<"Modify", "Name", "To">>,
                           <<"Modify", "Name", "Both">> }

\* C10 as amended: only Create events and name-change events other than
\* rename-from have a candidate; every other kind has none and triggers no
\* type check, no match and no hide.
C10_OnlyCreateAndNameChange ==
    /\ Handled
         /\ event.kind \notin { <<"Create">>, <<"Modify", "Name", "To">>,
                                <<"Modify", "Name", "Both">>, <<"Modify", "Name", "Any">>,
                                <<"Modify", "Name", "Other">> }
       => NothingDone
    /\ Handled /\ candidate # None
       => event.kind \in { <<"Create">>, <<"Modify", "Name", "To">>,
                           <<"Modify", "Name", "Both">>, <<"Modify", "Name", "Any">>,
                           <<"Modify", "Name", "Other">> }

\* A rename-from event for a file that the same run would hide on a Create.
C10_Witness ==
    /\ Handled
    /\ event = Event(<<"Modify", "Name", "From">>, << <<"b">> >>)
    /\ << <<"b">> >> \in DOMAIN fs /\ ~test /\ platform = "unix"
    /\ handle_event(platform, fs, Event(<<"Create">>, event.paths), matcher, types,
                    test, verbose).outcome = "Hidden"
    /\ NothingDone

\* C11: a path that is not valid UTF-8 and matches an include glob, and no
\* exclude rule, matches overall, decided by the glob, with the lossy text of
\* the path in the result.
C11_NonUtf8GlobMatches ==
    (/\ Called
     /\ to_str(ArgBytes) = None
     /\ matcher.globs # None /\ \E g \in Unwrap(matcher.globs) : GlobMatch(g, ArgBytes)
     /\ ~ExcludeHit)
    => /\ Unwrap(match_result).result = TRUE
       /\ Unwrap(match_result).matcher_type = Some("Glob")
       /\ Unwrap(match_result).lossy = Some(ArgText)

C11_Witness ==
    /\ Called
    /\ to_str(ArgBytes) = None /\ ArgText # ArgBytes
    /\ matcher.globs = Some({ <<"/", "QM">> }) /\ GlobMatch(<<"/", "QM">>, ArgBytes)
    /\ matcher.regexes_exclude # None /\ Unwrap(matcher.regexes_exclude) # {}
    /\ ~ExcludeHit
    /\ Unwrap(match_result).result = TRUE
    /\ Unwrap(match_result).lossy = Some(ArgText)

\* The dispatch, once its type filter accepted the path, handed the path to
\* the matcher, and acted when the matcher matched.
Evaluated(d, path) ==
    /\ (\E i \in DOMAIN d.steps : d.steps[i] = Step("type", path, TRUE))
          => \E i \in DOMAIN d.steps : d.steps[i].step = "match" /\ d.steps[i].path = path
    /\ (\E i \in DOMAIN d.steps : d.steps[i] = Step("match", path, TRUE))
          => \E i \in DOMAIN d.steps : IsAct(d.steps[i]) /\ d.steps[i].path = path

NonUtf8Dispatched ==
    /\ batch_out # None /\ watch_out # None
    /\ to_str(as_os_str(entry_path)) = None

\* C12: in batch and in watch dispatch a path that is not valid UTF-8 is
\* passed to the matcher once the type filter accepted it, and goes on to
\* hide / would-hide when it matches; no dispatch drops it before matching.
C12_NonUtf8Evaluated ==
    NonUtf8Dispatched =>
        /\ Evaluated(Unwrap(batch_out), entry_path)
        /\ Evaluated(Unwrap(watch_out), entry_path)
        /\ Evaluated(Unwrap(main_batch_out), entry_path)
        /\ Evaluated(Unwrap(main_watch_out), entry_path)

\* The part of C12 that holds: the dispatch through filter::path_matches_pattern.
NonUtf8EvaluatedByFilter ==
    NonUtf8Dispatched =>
        /\ Evaluated(Unwrap(batch_out), entry_path)
        /\ Evaluated(Unwrap(watch_out), entry_path)

\* The paths the batch walk handed to the filters.
BatchDispatched == { r.steps[1].path : r \in { x \in log : x.src = "batch" /\ x.steps # <<>> } }

\* C14: without --recursive the walk hands only the direct children of the
\* root to the filters.
C14_OnlyDirectChildren ==
    ~recursive => \A path \in BatchDispatched : parent(path) = Some(Root)

\* The part of C14 that holds: without --recursive nothing below depth 1 is
\* handed to the filters.
DepthBoundOne ==
    ~recursive => \A path \in BatchDispatched : Len(path) <= 1

IsLink(fs_, path) ==
    path \in DOMAIN fs_ /\ fs_[path].kind \in {"link_file", "link_dir", "link_broken"}

\* C15: a symbolic link is classified Symlink whatever its target is:
\* matches_type accepts it exactly when Symlink is among the accepted types.
C15_LinkIsSymlink ==
    type_result # None /\ IsLink(fs, entry_path) /\ fs[entry_path].kind # "link_broken" =>
        /\ IsOk(Unwrap(type_result))
        /\ Val(Unwrap(type_result)) = ("Symlink" \in Unwrap(types))

\* What the code does instead: a link is classified as its target is, and no
\* path at all is classified Symlink.
LinkClassifiedAsTarget ==
    type_result # None =>
        /\ object_type(fs, entry_path) # Ok("Symlink")
        /\ IsLink(fs, entry_path) /\ fs[entry_path].kind = "link_file"
              => Unwrap(type_result) = Ok("File" \in Unwrap(types))
        /\ IsLink(fs, entry_path) /\ fs[entry_path].kind = "link_dir"
              => Unwrap(type_result) = Ok("Folder" \in Unwrap(types))
        /\ IsLink(fs, entry_path) /\ fs[entry_path].kind = "link_broken"
              => ~IsOk(Unwrap(type_result))

\* The dispatch reported the metadata error for the path and did nothing
\* else: the type filter rejected, no match, no hide, the file system is as
\* it was.
RejectedOnMetadataError(d, path) ==
    /\ d.outcome = "Skipped"
    /\ d.steps = <<Step("type", path, FALSE)>>
    /\ d.fs = fs
    /\ \E i \in DOMAIN d.out :
          d.out[i] = Line("stderr", "Failed to get metadata", path)

\* C16: with an accepted-type set, an entry whose metadata cannot be read is
\* treated as not matching: the error is printed and neither the matcher nor
\* hide is called for it, in batch and in watch dispatch.
C16_MetadataErrorRejects ==
    (/\ batch_out # None /\ watch_out # None
     /\ types # None /\ metadata(fs, entry_path) = None)
    => /\ RejectedOnMetadataError(Unwrap(batch_out), entry_path)
       /\ RejectedOnMetadataError(Unwrap(watch_out), entry_path)
       /\ RejectedOnMetadataError(Unwrap(main_batch_out), entry_path)
       /\ RejectedOnMetadataError(Unwrap(main_watch_out), entry_path)

C16_Witness ==
    /\ batch_out # None /\ watch_out # None
    /\ types # None /\ metadata(fs, entry_path) = None
    /\ entry_path \in DOMAIN fs /\ fs[entry_path].kind = "link_broken"
    /\ matcher = NoMatcher /\ ~test
    /\ RejectedOnMetadataError(Unwrap(watch_out), entry_path)
    /\ hide(platform, fs, entry_path).ok

\* What search would do with a pending item of the walk in this state.
PendingDispatch(item) ==
    search_entry(platform, fs, item, matcher, types, test, verbose)

\* C17: a batch dispatch that fails (a walk error, a metadata read failure or
\* a failed hide) takes only its own item off the walk: every other pending
\* item stays pending, the directories still to read stay, the walk goes on
\* and main has not returned.  A batch run whose patterns parsed never ends
\* with a failure status, and when it has ended every item the walk yielded
\* has been dispatched.
C17_FailureIsLocal ==
    /\ [](~watch_mode /\ fault # "pattern" => exit_status # Some("failure"))
    /\ [](~watch_mode /\ exit_status = Some("success")
            => walk = "done" /\ yielded = {} /\ to_read = {})
    /\ [][\A item \in yielded :
              item \notin yielded' /\ Failure(PendingDispatch(item))
              => /\ yielded' = yielded \ {item}
                 /\ to_read' = to_read
                 /\ walk' = walk
                 /\ exit_status' = None]_vars

FailedAs(e, text) ==
    /\ e.src = "batch"
    /\ \E i \in 1..Len(e.out) : e.out[i].stream = "stderr" /\ e.out[i].text = text

\* A batch run that ended with success although one hide failed and the walk
\* reported an error, and that hid another entry.
C17_Witness ==
    /\ ~watch_mode /\ exit_status = Some("success")
    /\ \E e \in log : FailedAs(e, "hide failed")
    /\ \E e \in log : FailedAs(e, "Failed to get path.")
    /\ \E e \in log : e.src = "batch" /\ e.outcome = "Hidden"

\* A batch run that ended with success although the metadata of one entry
\* could not be read, and that took another entry through the type filter.
MetadataFailureIsLocal ==
    /\ ~watch_mode /\ exit_status = Some("success")
    /\ \E e \in log : /\ e.src = "batch" /\ e.outcome = "Skipped"
                       /\ e.steps # <<>> /\ e.steps[1].step = "type"
                       /\ \E i \in 1..Len(e.out) : e.out[i].stream = "stderr"
    /\ \E e \in log : /\ e.src = "batch" /\ e.out = <<>>
                       /\ e.steps # <<>> /\ e.steps[1].step = "type"

\* C18: with a fatal configuration error (a pattern that does not parse, a
\* root that cannot be opened, a watcher that cannot be created or cannot
\* watch the root) no entry is ever taken into the filters, nothing is
\* hidden, and the run does not end with a success status.
C18_FatalErrorBeforeDispatch ==
    fault # "none"
    => /\ \A e \in log : e.steps = <<>>
       /\ fs = InitTree
       /\ exit_status # Some("success")

\* The part of it that holds: a pattern that does not parse ends the run with
\* a failure status before search or watch has started.
PatternErrorBeforeDispatch ==
    fault = "pattern"
    => /\ log = {} /\ fs = InitTree /\ walk = "start" /\ channel = <<>>
       /\ exit_status # Some("success")

\* A root that cannot be opened ends a batch run with a success status.
UnopenedRootEndsWithSuccess ==
    ~(fault = "root" /\ ~watch_mode) \/ exit_status # Some("success")

\* A watcher that cannot be started ends the run with a failure status only
\* after the batch pass has hidden entries.
WatcherErrorBeforeHide ==
    fault = "watcher" /\ exit_status = Some("failure") => fs = InitTree

\* The handler reported the missing path on stderr and did nothing else.
OnlyReported(d) ==
    /\ d.outcome = "Skipped"
    /\ d.steps = <<>>
    /\ d.fs = fs
    /\ d.out = <<Line("stderr", "Failed to get path from event", <<>>)>>

\* C19: a Create event without a path has no candidate path; its handler
\* prints one error, makes no type check, no match evaluation and no hide,
\* and returns, so that the watch loop takes the next event.
C19_CreateWithoutPath ==
    Handled /\ IsCreate(event.kind) /\ event.paths = <<>>
    => /\ candidate # None /\ ~IsOk(Unwrap(candidate))
       /\ OnlyReported(Unwrap(watch_out))
       /\ OnlyReported(Unwrap(main_watch_out))

\* A Create event without a path was handled in a run that hides whatever
\* it is given.
C19_Witness ==
    /\ Handled /\ IsCreate(event.kind) /\ event.paths = <<>>
    /\ matcher = NoMatcher /\ types = None /\ ~test
    /\ Len(Unwrap(watch_out).out) = 1

AllDone == \A i \in DOMAIN dispatchers : dispatchers[i].pc = "done"

\* C20: when one path is dispatched by several threads at once, a batch pass
\* and watch handlers or watch handlers alone, every interleaving of their
\* filter, check and system-call steps ends in the file system state that a
\* single dispatch of the path leaves, and no dispatch stops another: every
\* thread that is not done can take its next step.
C20_ConcurrentDispatchAsSingle ==
    /\ dispatchers # <<>> /\ AllDone => fs = Unwrap(batch_out).fs
    /\ \A i \in DOMAIN dispatchers :
          dispatchers[i].pc # "done" => ENABLED RaceStep(i)

\* The batch pass and a watch handler both reached the rename of the same
\* path: one renamed it, the other's rename failed and was reported.
C20_Witness ==
    /\ dispatchers # <<>> /\ AllDone
    /\ platform = "unix" /\ types = None
    /\ dispatchers[1].src = "batch" /\ dispatchers[2].src = "watch"
    /\ \E i, k \in DOMAIN dispatchers : ~dispatchers[i].err /\ dispatchers[k].err
    /\ Unwrap(batch_out).outcome = "Hidden"
    /\ entry_path \notin DOMAIN fs

\* Two threads both read the attributes of the path before either set the
\* hidden attribute.
BothSetHidden ==
    /\ dispatchers # <<>> /\ platform = "windows"
    /\ \E i, k \in DOMAIN dispatchers :
          i # k /\ dispatchers[i].pc = "act" /\ dispatchers[k].pc = "act"

\* hide is its checks followed by its system call.
HideIsChecksThenAct ==
    hide_path # <<>>
    => LET c == hide_checks(platform, fs, hide_path)
       IN  hide(platform, fs, hide_path)
             = IF c = "act" THEN hide_acts(platform, fs, hide_path)
               ELSE [ok |-> c = "ok", fs |-> fs]

HandlerRan(k) == Line("handled", "handle_event", k) \in log

\* C21: in watch mode, whatever the size of the pool, the loop of watch can
\* always hand a received event to the pool (it does not wait for a worker),
\* and under fair scheduling every event handed to the pool is eventually
\* handled, also while search is using the pool.
C21_HandlersEventuallyRun ==
    /\ [](pool.watch = "looping" /\ channel # <<>> => ENABLED PoolRecv)
    /\ \A k \in 1..MaxEvents : BagIn(k, spawned) ~> HandlerRan(k)

\* The part of it that holds: the loop never waits for a worker.
SubmitDoesNotBlock ==
    pool.watch = "looping" /\ channel # <<>> => ENABLED PoolRecv

\* With a worker to spare beside the loop of watch and the closures of
\* search, every spawned handler runs.
HandlersRunWithSpareWorker ==
    \A k \in 1..MaxEvents :
        (BagIn(k, spawned) /\ pool.size > 1 + Cardinality(DOMAIN walk)) ~> HandlerRan(k)

\* A pool of one worker whose worker is held by the loop of watch while a
\* handler is waiting.
HandlerStarved ==
    /\ pool.size = 1 /\ pool.watch = "looping" /\ spawned # EmptyBag

Retried(r) == Line("retry", "try_into_iter failed", r) \in log

\* C22: when try_into_iter fails because the pool is busy, search stays on
\* the same root and tries again, with and without verbose: no root is ever
\* skipped, search is done only when every root has been walked, a root
\* cannot wait for ever while a worker is free, and a walk that has started
\* is completed.
C22_RetryUntilStarted ==
    /\ [](\A r \in DOMAIN walk : walk[r] # "skipped")
    /\ [](exit_status # None => \A r \in DOMAIN walk : walk[r] = "done")
    /\ [][\A r \in DOMAIN walk :
              walk[r] = "starting" => walk'[r] \in { "starting", "walking" }]_vars
    /\ \A r \in 1..MaxRoots :
          /\ []<>~(r \in DOMAIN walk /\ walk[r] = "starting" /\ FreeWorker)
          /\ (r \in DOMAIN walk /\ walk[r] = "walking")
                ~> (r \in DOMAIN walk /\ walk[r] = "done")

\* A root whose start failed while the pool was busy has been walked, and
\* the failure was reported because verbose is set; main has returned.
C22_Witness ==
    /\ verbose /\ exit_status # None
    /\ \E r \in DOMAIN walk :
          /\ Retried(r) /\ walk[r] = "done"
          /\ Line("stderr", "Failed to start iteration", r) \in log

\* The same without verbose: the retry prints nothing.
RetriedSilently ==
    /\ ~verbose /\ exit_status # None
    /\ \E r \in DOMAIN walk : Retried(r) /\ walk[r] = "done"
    /\ \A l \in log : l.stream # "stderr"

\* The pool may never become free: with as many roots as workers every
\* worker is held by a closure that waits for a walk no worker can start.
SearchStuck ==
    /\ \A r \in DOMAIN walk : walk[r] = "starting"
    /\ Cardinality(DOMAIN walk) = pool.size
    /\ pool.watch \in { "none", "injected" }

ErrorReported(k) == Line("stderr", "event error", k) \in log

\* C23: in watch mode, when rx.recv fails the loop of watch ends with an
\* error, and main returns it only after search has walked every root and
\* every spawned handler has run; an error delivered in place of an event is
\* printed and leaves the loop running, so that the loop ends only when the
\* channel is broken or the watcher could not be set up.
C23_ChannelBreakEndsWatchOnly ==
    /\ [](pool.watch = "looping" /\ channel = <<>> /\ ~pool.open
            => ENABLED PoolRecvFails)
    /\ (pool.watch = "looping" /\ ~pool.open) ~> (pool.watch = "ended")
    /\ [](watch_mode /\ exit_status # None
            => /\ exit_status = Some("failure")
               /\ pool.watch = "ended"
               /\ \A r \in DOMAIN walk : walk[r] = "done"
               /\ spawned = EmptyBag)
    /\ [](pool.watch = "ended" => ~pool.open \/ fault = "watcher")
    /\ [][channel # <<>> /\ ~IsOk(Head(channel)) /\ channel' = Tail(channel)
            => /\ pool'.watch = "looping"
               /\ Line("stderr", "event error", Val(Head(channel))) \in log'
               /\ spawned' = spawned]_vars

\* The channel broke after an error value and an event had been delivered:
\* the error was printed, the event was handled, search finished, and main
\* returned the error of watch.
C23_Witness ==
    /\ watch_mode /\ fault = "none" /\ ~pool.open
    /\ exit_status = Some("failure")
    /\ \E k \in 1..MaxEvents : ErrorReported(k)
    /\ \E k \in 1..MaxEvents : HandlerRan(k)
    /\ \A r \in DOMAIN walk : walk[r] = "done"

\* The entry passed the type filter and the matcher when the pass started.
PassesInitially(q) ==
    /\ file_type_matches(InitTree, q, types, verbose).ret
    /\ path_matches_pattern(matcher, q, verbose).ret

\* now is where the entry that was at q is, if the program alone renamed
\* entries: each component is as it was or has gained a leading dot.
SameEntry(q, now) ==
    /\ Len(now) = Len(q)
    /\ \A i \in 1..Len(q) : now[i] = q[i] \/ now[i] = <<".">> \o q[i]

\* The entry that was at q is hidden: its name has a leading dot on Unix, its
\* hidden attribute is set on Windows.
HiddenNow(q) ==
    IF platform = "windows"
    THEN q \in DOMAIN fs /\ fs[q].hidden
    ELSE \E now \in DOMAIN fs : SameEntry(q, now) /\ Head(now[Len(now)]) = "."

UndisturbedRecursivePass ==
    /\ ~watch_mode /\ recursive /\ ~test /\ fault = "none"
    /\ env_steps = 0 /\ exit_status = Some("success")

\* C24: when a recursive batch pass without test has completed and no other
\* program has changed anything, every entry that was under the root at the
\* start and passes the type filter and the matcher is hidden, however the
\* walk and the hide actions interleaved.
C24_DescendantsHidden ==
    UndisturbedRecursivePass
    => \A q \in DOMAIN InitTree : PassesInitially(q) => HiddenNow(q)

\* The same on Windows alone, where hide leaves every path in place.
WindowsDescendantsHidden ==
    UndisturbedRecursivePass /\ platform = "windows"
    => \A q \in DOMAIN InitTree : PassesInitially(q) => HiddenNow(q)

\* On Unix the pass can also go well: the file was hidden before its
\* directory.
UnixDescendantsHiddenInSomeOrder ==
    /\ UndisturbedRecursivePass /\ platform = "unix"
    /\ matcher = NoMatcher /\ types = None
    /\ \A q \in DOMAIN InitTree : HiddenNow(q)

\* C25: a call of hide leaves every entry that is neither the target nor
\* below it as it was: not removed, not replaced, not modified; a sibling
\* whose name is the target's with a leading dot included.
C25_HideChangesOnlyTarget ==
    [][\A q \in DOMAIN fs :
          ~IsPrefix(hide_path, q) => q \in DOMAIN fs' /\ fs'[q] = fs[q]]_vars

\* What holds: the only entries a call of hide can destroy besides moving the
\* target are its dot-named sibling and what is below that sibling.
HideSparesAllButDotSibling ==
    [][\A q \in DOMAIN fs :
          /\ ~IsPrefix(hide_path, q)
          /\ DotSibling(hide_path) # None => ~IsPrefix(Unwrap(DotSibling(hide_path)), q)
          => q \in DOMAIN fs' /\ fs'[q] = fs[q]]_vars

\* On Windows hide changes nothing but the target's attribute.
WindowsHideChangesOnlyTarget ==
    [][platform = "windows"
       => \A q \in DOMAIN fs : q # hide_path => q \in DOMAIN fs' /\ fs'[q] = fs[q]]_vars

\* The name has gained more than one leading dot.
DoubleDot(name) == Len(name) >= 2 /\ name[1] = "." /\ name[2] = "."

\* Nothing is left for the program to do: no item of the walk, no event in
\* the channel, no handler on the pool.
Quiescent ==
    /\ walk # "iter" \/ (to_read = {} /\ yielded = {})
    /\ channel = <<>> /\ spawned = EmptyBag

HideTwiceSameState ==
    Len(hide_results) = 2 => hide_results[2].fs = hide_results[1].fs

FsWellFormed == WellFormed(fs)

====
